---- MODULE Spec2Model ----
(***************************************************************************)
(* Hi-Tech Institute admin backend: the authorization gate, the upload     *)
(* middleware and the Notice / Gallery write handlers, with the document   *)
(* store, the remote object store (Cloudinary) and the local uploads       *)
(* directory as state.  Every handler is cut at its awaits: one action per *)
(* synchronous segment.  Time is counted in days.                          *)
(*                                                                         *)
(* The source holds two NoticeControllers, one uploading to Cloudinary and *)
(* one keeping files on the local disk; strategy says which one the notice *)
(* routes are wired to.  A write to the document store and a call to a     *)
(* file storage may fail at any time; reads of the store succeed.          *)
(*                                                                         *)
(* One request is followed through its middleware chain at a time.  The    *)
(* behaviours are checked in parts: SpecAdmin (admin records), SpecAuth    *)
(* (sign-in and the gate), SpecCreate, SpecNotice and SpecGallery (the     *)
(* handlers behind the gate, from a signed-in admin on), SpecList (the     *)
(* public list over a store of several notices), SpecRead (create and      *)
(* get-by-id), SpecDelete (create and delete, both stores), SpecUpdate     *)
(* (create and update, both stores), SpecValidate (the Joi validators as   *)
(* functions) and SpecRace (two requests in flight: update against delete  *)
(* of one stored notice, Cloudinary controller).                           *)
(***************************************************************************)
EXTENDS Integers, FiniteSets, Sequences, TLC

\* ------------------------------------------------------------- bounds
MaxNow == 1          \* the clock runs over 0..MaxNow days
MaxNotices == 1      \* notice ids ever generated
MaxGallery == 1      \* gallery ids ever generated
MaxFiles == 2        \* file names / public ids ever generated
MaxAdmins == 2       \* admin ids ever generated
MaxListed == 5       \* notices in the store when lists are read

\* ------------------------------------------------- program constants
MAX_FUTURE_DAYS == 30    \* noticeSchema.pre('save'): 30 * 24 * 60 * 60 * 1000 ms
TOKEN_DAYS == 1          \* jwt.sign(..., { expiresIn: '24h' })
TITLE_MIN == 3
TITLE_MAX == 200
DESCRIPTION_MIN == 10
DESCRIPTION_MAX == 2000
DEFAULT_PAGE == 1
DEFAULT_LIMIT == 10
LIMIT_MAX == 100
MAX_FILE_SIZE == 5242880
MAX_FILES == 1
PASSWORD_MIN == 8
NAME_MIN == 2
NAME_MAX == 50
SEARCH_MAX == 100

\* --------------------------------------------------------- vocabulary
Absent == [absent |-> TRUE]  \* an undefined / missing document, object or string
NoDate == -1                 \* no date field in the body
InvalidDate == -2            \* a date string that parses to NaN
NoAdmin == 0                 \* no admin id

ALLOWED_FILE_TYPES ==
  {"image/jpeg", "image/jpg", "image/png", "image/webp", "application/pdf"}

GALLERY_CATEGORIES ==
  {"College Events", "Workshops & Seminars", "Campus Tour",
   "Technical Competitions", "Sports & Cultural"}

NoticeIds == 1..MaxNotices
GalleryIds == 1..MaxGallery
AdminIds == 1..MaxAdmins
ReqIds == {1}

VARIABLES
  now,        \* current day
  strategy,   \* "remote": Cloudinary notice controller; "local": disk controller
  admins,     \* Admin collection: AdminIds -> Absent or a document
  notices,    \* Notice collection: NoticeIds -> Absent or a document
  gallery,    \* Gallery collection: GalleryIds -> Absent or a document
  remote,     \* public ids present in the remote object store
  disk,       \* file names present in the local uploads directory
  nextNotice, \* next notice id the store generates
  nextGallery,\* next gallery id the store generates
  nextFile,   \* next generated file name / public id
  nextAdmin,  \* next admin id the store generates
  issued,     \* signed tokens handed out by signIn
  req,        \* the request in flight: its inputs, position and response
  creators    \* admin-creation operations running out of band

vars == <<now, strategy, admins, notices, gallery, remote, disk,
          nextNotice, nextGallery, nextFile, nextAdmin, issued, req,
          creators>>

\* ---------------------------------------------------------------- strings
\* A string is known by the length of its text and by whether blanks surround it.
Str(n, p) == [len |-> n, pad |-> p]

\* Joi .trim() / mongoose trim: true
Trim(s) == IF s = Absent THEN Absent ELSE [s EXCEPT !.pad = 0]

\* ----------------------------------------------------------------- emails
Email(n, u, p) == [name |-> n, upper |-> u, pad |-> p]

\* adminSchema.email: lowercase: true, trim: true
NormalizeEmail(e) == [e EXCEPT !.upper = FALSE, !.pad = FALSE]

EmailInputs == {Email("a", FALSE, FALSE), Email("a", TRUE, TRUE), Email("b", FALSE, FALSE)}

\* -------------------------------------------------------------- passwords
\* a password value: the plain text and how many times bcrypt has hashed it
Plain(p) == [text |-> p, rounds |-> 0]

Passwords == {Plain("Passw0rd!"), Plain("0ther-Pw!")}

\* bcrypt.hash: the salt is left out, a hash of a hash differs from the hash
Hash(p) == [p EXCEPT !.rounds = @ + 1]

\* bcrypt.compare
ComparePassword(candidate, stored) == stored = Hash(candidate)

\* ----------------------------------------------------------------- tokens
\* jwt.sign(payload, JWT_SECRET, { expiresIn: '24h' })
SignToken(a, t) == [adminId |-> a, exp |-> t + TOKEN_DAYS, sig |-> "good"]

\* a token signed with another secret
ForgedToken == [adminId |-> 1, exp |-> MaxNow + TOKEN_DAYS, sig |-> "bad"]

\* a verification that looks at the signature and never at the expiry
JwtVerifySignatureOnly(token, t) ==
  IF token.sig # "good" THEN "JsonWebTokenError" ELSE "ok"

\* jwt.verify: the signature first, then the expiry
JwtVerify(token, t) ==
  IF token.sig # "good" THEN "JsonWebTokenError"
  ELSE IF t >= token.exp THEN "TokenExpiredError"
  ELSE "ok"

\* TokenExpiredError extends JsonWebTokenError
InstanceOfJsonWebTokenError(e) == e \in {"JsonWebTokenError", "TokenExpiredError"}

GateReject(m) == [status |-> 401, message |-> m, admin |-> NoAdmin]

\* a gate that trusts the token once its admin resolves and never reads isActive
authenticateAdminTokenOnly(token) ==
  IF token = Absent THEN GateReject("Access denied. No token provided.")
  ELSE IF JwtVerify(token, now) # "ok" THEN GateReject("Access denied. Invalid token.")
  ELSE IF admins[token.adminId] = Absent
    THEN GateReject("Access denied. Admin not found.")
  ELSE [status |-> 0, message |-> "", admin |-> token.adminId]

\* middlewares/auth.ts authenticateAdmin: the answer of the gate for a cookie
\* token, read against the Admin collection as it is now
authenticateAdmin(token) ==
  IF token = Absent THEN GateReject("Access denied. No token provided.")
  ELSE LET v == JwtVerify(token, now) IN
    IF v # "ok" THEN
      IF InstanceOfJsonWebTokenError(v)
        THEN GateReject("Access denied. Invalid token.")
        ELSE GateReject("Access denied. Token has expired.")
    ELSE IF admins[token.adminId] = Absent
      THEN GateReject("Access denied. Admin not found.")
    ELSE IF ~admins[token.adminId].isActive
      THEN GateReject("Access denied. Admin account is deactivated.")
    ELSE [status |-> 0, message |-> "", admin |-> token.adminId]

\* ------------------------------------------------------------- validation
\* utils/validators.ts noticeSchema, one string rule set: the messages of the
\* rules a (trimmed) string breaks
StringRuleErrors(s, min, max, required, tooShort, tooLong) ==
  IF s = Absent THEN {required}
  ELSE IF s.len = 0 THEN {"is not allowed to be empty"}
  ELSE IF s.len < min THEN {tooShort}
  ELSE IF s.len > max THEN {tooLong}
  ELSE {}

\* validateNotice(req.body).error, abortEarly: false: every broken rule's message
validateNoticeErrors(body) ==
  StringRuleErrors(Trim(body.title), TITLE_MIN, TITLE_MAX, "Title is required",
                   "Title must be at least 3 characters long",
                   "Title cannot exceed 200 characters")
  \cup
  StringRuleErrors(Trim(body.description), DESCRIPTION_MIN, DESCRIPTION_MAX,
                   "Description is required",
                   "Description must be at least 10 characters long",
                   "Description cannot exceed 2000 characters")
  \cup
  (IF body.date = InvalidDate THEN {"Please provide a valid date"} ELSE {})

\* validateNotice(req.body).value: the strings trimmed
validateNoticeValue(body) ==
  [title |-> Trim(body.title), description |-> Trim(body.description),
   date |-> body.date]

\* Joi.string().email({ tlds: { allow: false } }): an address has a local part
\* and a domain and no blank around it
IsEmailAddress(e) == e.name \notin {"", "not-an-address"} /\ ~e.pad

\* the email key of signInSchema and adminRegistrationSchema (no trim)
EmailRuleErrors(e) ==
  IF e = Absent THEN {"Email is required"}
  ELSE IF e = Email("", FALSE, FALSE) THEN {"email is not allowed to be empty"}
  ELSE IF ~IsEmailAddress(e) THEN {"Please provide a valid email address"}
  ELSE {}

\* validateSignIn returning at the first broken rule (abortEarly: true)
validateSignInAbortEarly(data) ==
  IF EmailRuleErrors(data.email) # {} THEN EmailRuleErrors(data.email)
  ELSE IF data.password = Absent THEN {"Password is required"}
  ELSE IF data.password.text = "" THEN {"password is not allowed to be empty"}
  ELSE IF Len(data.password.text) < PASSWORD_MIN
    THEN {"Password must be at least 8 characters long"}
  ELSE {}

\* validateSignIn(req.body).error, abortEarly: false
validateSignInErrors(data) ==
  EmailRuleErrors(data.email)
  \cup
  (IF data.password = Absent THEN {"Password is required"}
   ELSE IF data.password.text = "" THEN {"password is not allowed to be empty"}
   ELSE IF Len(data.password.text) < PASSWORD_MIN
     THEN {"Password must be at least 8 characters long"}
   ELSE {})

\* validateSignIn(req.body).value: signInSchema converts nothing
validateSignInValue(data) == data

\* a filter that lets every declared type through
fileFilterAny(file) == TRUE

\* middlewares fileFilter: config.ALLOWED_FILE_TYPES.includes(file.mimetype)
fileFilter(file) == file.mimetype \in ALLOWED_FILE_TYPES

\* --------------------------------------------------------------- schemas
NoFile == 0      \* an undefined path / publicId

\* a cast that builds a subdocument even when no attachment was given
CastAttachmentAlways(a) ==
  [path |-> IF a = Absent THEN NoFile ELSE a.path, publicId |-> NoFile]

\* attachmentSchema under mongoose's strict mode: paths the schema does not
\* declare (url, publicId, format, ...) are dropped when the subdocument is cast
CastAttachment(a) ==
  IF a = Absent THEN Absent ELSE [path |-> a.path, publicId |-> NoFile]

\* attachmentSchema: path is required
AttachmentErrors(a) ==
  IF a # Absent /\ a.path = NoFile THEN {"Path path is required."} ELSE {}

\* noticeSchema validators on save
NoticeSchemaErrors(doc) ==
  StringRuleErrors(doc.title, TITLE_MIN, TITLE_MAX, "Notice title is required",
                   "Title must be at least 3 characters long",
                   "Title cannot exceed 200 characters")
  \cup
  StringRuleErrors(doc.description, DESCRIPTION_MIN, DESCRIPTION_MAX,
                   "Notice description is required",
                   "Description must be at least 10 characters long",
                   "Description cannot exceed 2000 characters")
  \cup AttachmentErrors(doc.attachment)

\* noticeSchema.pre('save'): this.date > now + 30 days
PreSaveDateError(doc, t) == doc.date > t + MAX_FUTURE_DAYS

\* gallerySchema validators: title required, image.url required,
\* category required and one of the enum (after trim)
GallerySchemaErrors(doc) ==
  (IF doc.title = Absent \/ doc.title.len = 0 THEN {"Path title is required."} ELSE {})
  \cup (IF doc.image.url = NoFile THEN {"Path image.url is required."} ELSE {})
  \cup (IF doc.category = "" THEN {"Path category is required."}
        ELSE IF doc.category \notin GALLERY_CATEGORIES
          THEN {"category is not a valid enum value."} ELSE {})

\* ---------------------------------------------------------------- errors
PlainError(m) == [name |-> "Error", statusCode |-> 0, code |-> 0, message |-> m, errors |-> {}]
AppError(m, sc) == [name |-> "Error", statusCode |-> sc, code |-> 0, message |-> m, errors |-> {}]
ValidationError(es) ==
  [name |-> "ValidationError", statusCode |-> 0, code |-> 0,
   message |-> "validation failed", errors |-> es]
DuplicateKeyError ==
  [name |-> "MongoServerError", statusCode |-> 0, code |-> 11000,
   message |-> "E11000 duplicate key error", errors |-> {}]
StoreError == PlainError("store unavailable")
CloudError == PlainError("cloud storage unavailable")

Response(st, m, es) == [status |-> st, message |-> m, errors |-> es]

\* middlewares/errorHandler.ts errorHandler: the response for an error passed to next()
errorHandler(error) ==
  IF error.code = 11000
    THEN Response(400, "Duplicate field value", {"email already exists"})
  ELSE IF error.name = "ValidationError"
    THEN Response(400, "Validation Error", error.errors)
  ELSE Response(IF error.statusCode # 0 THEN error.statusCode ELSE 500,
                error.message, {})

\* ---------------------------------------------------------------- inputs
ValidTitle == Str(3, 1)
ValidDescription == Str(10, 0)

Body(t, d, dt, c) == [title |-> t, description |-> d, date |-> dt, category |-> c]
EmptyBody == Body(Absent, Absent, NoDate, "")

\* multipart bodies sent to the notice routes at day t: a valid one with each
\* date, and one for each single broken rule
NoticeBodies(t) ==
  {Body(ValidTitle, ValidDescription, dt, "") :
     dt \in {NoDate, InvalidDate, t + MAX_FUTURE_DAYS, t + MAX_FUTURE_DAYS + 1}}
  \cup {Body(ti, ValidDescription, NoDate, "") :
          ti \in {Absent, Str(1, 0), Str(TITLE_MIN - 1, 0), Str(TITLE_MAX + 1, 0)}}
  \cup {Body(ValidTitle, de, NoDate, "") :
          de \in {Absent, Str(DESCRIPTION_MIN - 1, 0), Str(DESCRIPTION_MAX + 1, 0)}}

\* bodies sent to the gallery routes
GalleryBodies ==
  {Body(ValidTitle, Absent, NoDate, c) : c \in {"College Events", "Picnic", ""}}
  \cup {Body(Absent, Absent, NoDate, "College Events"),
        Body(ValidTitle, Absent, InvalidDate, "College Events")}

\* the file part of a multipart request
File(m) == [mimetype |-> m]
FileInputs == {Absent, File("image/png"), File("text/html")}

\* the file parts of a multipart request: the field name of the first, its
\* size in bytes, and how many file parts there are
Parts(f, n, k) == [field |-> f, size |-> n, files |-> k]
OnePart == Parts("attachment", MAX_FILE_SIZE, 1)

\* the parts sent with a file: within the limits, or breaking one of them
PartsInputs(file) ==
  IF file = Absent THEN {Absent}
  ELSE IF file.mimetype \notin ALLOWED_FILE_TYPES THEN {OnePart}
  ELSE {OnePart, Parts("photo", MAX_FILE_SIZE, 1),
        Parts("attachment", MAX_FILE_SIZE + 1, 1),
        Parts("attachment", MAX_FILE_SIZE, MAX_FILES + 1)}

\* a multer without limits
MulterNoLimits(parts) == "none"

\* multer single('attachment') with limits { fileSize, files }: the code of
\* the MulterError the parts raise
MulterErrorCode(parts) ==
  IF parts = Absent THEN "none"
  ELSE IF parts.field # "attachment" THEN "LIMIT_UNEXPECTED_FILE"
  ELSE IF parts.size > MAX_FILE_SIZE THEN "LIMIT_FILE_SIZE"
  ELSE IF parts.files > MAX_FILES THEN "LIMIT_FILE_COUNT"
  ELSE "none"

\* handleMulterError: the 400 of each MulterError code
handleMulterError(code) ==
  IF code = "LIMIT_FILE_SIZE"
    THEN Response(400, "File too large", {"File size must be less than 5.00MB"})
  ELSE IF code = "LIMIT_FILE_COUNT"
    THEN Response(400, "Too many files", {"Only one file is allowed"})
  ELSE Response(400, "Unexpected file field",
                {"File must be uploaded with field name attachment"})

\* what a client can put in its cookie
TokenInputs == {Absent, ForgedToken} \cup issued

\* ------------------------------------------------------------- requests
IdleReq ==
  [op |-> "none", pc |-> "idle", token |-> Absent, id |-> 0, body |-> EmptyBody,
   file |-> Absent, email |-> Absent, password |-> Plain(""),
   admin |-> NoAdmin,      \* req.admin.adminId set by the gate
   path |-> NoFile,        \* req.file.path (disk storage)
   existing |-> Absent,    \* the document findById returned
   data |-> Absent,        \* noticeData / updateData / the gallery fields
   tmp |-> NoFile,         \* temporary file written by the handler
   uploaded |-> NoFile,    \* public id of the file ingested by this request
   oldDeleted |-> "none",  \* outcome of deleting the old attachment
   persist |-> "none",     \* outcome of the write to the document store
   query |-> Absent,       \* req.query of a list request
   list |-> Absent,        \* what a read handler got from the store
   cookie |-> Absent,      \* the token cookie the response sets
   parts |-> Absent,       \* the file parts of the multipart body
   status |-> 0, message |-> "", errors |-> {}]

\* the response is sent: what the handler held of the store is dropped
Answer(q, resp) ==
  [q EXCEPT !.pc = "done", !.status = resp.status, !.message = resp.message,
            !.errors = resp.errors, !.existing = Absent, !.data = Absent]

\* a slot takes a request when it is free or its response has been sent
Free(r) == req[r].pc \in {"idle", "done"}

Routes ==
  {"createNotice", "updateNotice", "deleteNotice", "uploadImageToGallery",
   "updateGalleryImage", "deleteGalleryImage", "getProfile", "verifyToken"}

\* routes whose middleware chain holds a multer upload after the gate
UploadRoutes == {"createNotice", "updateNotice", "uploadImageToGallery"}

\* the model follows a request only while names remain for what it may create
CanAlloc(op) ==
  /\ op \in UploadRoutes => nextFile <= MaxFiles
  /\ op = "createNotice" => nextNotice <= MaxNotices
  /\ op = "uploadImageToGallery" => nextGallery <= MaxGallery

\* routes/*.ts: a request to an admin-only route arrives and authenticateAdmin
\* answers it or calls next(); a multipart body is not parsed yet
Arrive(r, op, token, id, body) ==
  /\ Free(r)
  /\ CanAlloc(op)
  /\ LET g == authenticateAdmin(token)
         q == [IdleReq EXCEPT !.op = op, !.token = token, !.id = id, !.body = body]
     IN req' = [req EXCEPT ![r] =
          IF g.status # 0 THEN Answer(q, Response(g.status, g.message, {}))
          ELSE [q EXCEPT !.admin = g.admin,
                         !.pc = IF op \in UploadRoutes THEN "multer" ELSE "handler"]]
  /\ UNCHANGED <<now, strategy, admins, notices, gallery, remote, disk,
                 nextNotice, nextGallery, nextFile, nextAdmin, issued, creators>>

\* POST /api/notices
ArriveCreateNotice(r) ==
  \E token \in TokenInputs : Arrive(r, "createNotice", token, 0, EmptyBody)

\* PUT /api/notices/:id
ArriveUpdateNotice(r) ==
  \E token \in TokenInputs, id \in NoticeIds :
    Arrive(r, "updateNotice", token, id, EmptyBody)

\* DELETE /api/notices/:id
ArriveDeleteNotice(r) ==
  \E token \in TokenInputs, id \in NoticeIds :
    Arrive(r, "deleteNotice", token, id, EmptyBody)

\* POST /api/gallery
ArriveUploadImage(r) ==
  \E token \in TokenInputs : Arrive(r, "uploadImageToGallery", token, 0, EmptyBody)

\* PUT /api/gallery/:id, a JSON body parsed by express.json() before the gate
ArriveUpdateGallery(r) ==
  \E token \in TokenInputs, id \in GalleryIds, body \in GalleryBodies :
    Arrive(r, "updateGalleryImage", token, id, body)

\* DELETE /api/gallery/:id
ArriveDeleteGallery(r) ==
  \E token \in TokenInputs, id \in GalleryIds :
    Arrive(r, "deleteGalleryImage", token, id, EmptyBody)

\* GET /api/auth/profile and GET /api/auth/verify
ArriveAuth(r) ==
  \E op \in {"getProfile", "verifyToken"}, token \in TokenInputs :
    Arrive(r, op, token, 0, EmptyBody)

\* middlewares uploadSingle + handleMulterError: optionalCloudinaryUpload,
\* optionalFileUpload (disk storage) and requiredCloudinaryUpload; multer
\* parses the multipart stream into req.body and req.file
multerUpload(r) ==
  LET q0 == req[r]
      onDisk == strategy = "local" /\ q0.op \in {"createNotice", "updateNotice"}
  IN
  /\ q0.pc = "multer"
  /\ \E body \in (IF q0.op = "uploadImageToGallery"
                    THEN GalleryBodies ELSE NoticeBodies(now)),
        file \in FileInputs :
     \E parts \in PartsInputs(file) :
       LET q == [q0 EXCEPT !.body = body, !.file = file, !.parts = parts]
           code == MulterErrorCode(parts)
       IN
       IF code = "LIMIT_UNEXPECTED_FILE" THEN
         /\ req' = [req EXCEPT ![r] = Answer(q, handleMulterError(code))]
         /\ UNCHANGED <<disk, nextFile>>
       ELSE IF file # Absent /\ ~fileFilter(file) THEN
         /\ req' = [req EXCEPT ![r] =
              Answer(q, errorHandler(AppError("File type is not allowed", 400)))]
         /\ UNCHANGED <<disk, nextFile>>
       ELSE IF code # "none" /\ onDisk THEN
         /\ disk' = disk \cup {nextFile}
         /\ nextFile' = nextFile + 1
         /\ req' = [req EXCEPT ![r] = [q EXCEPT !.pc = "abort", !.path = nextFile]]
       ELSE IF code # "none" THEN
         /\ req' = [req EXCEPT ![r] = Answer(q, handleMulterError(code))]
         /\ UNCHANGED <<disk, nextFile>>
       ELSE IF q.op = "uploadImageToGallery" /\ file = Absent THEN
         /\ req' = [req EXCEPT ![r] =
              Answer(q, Response(400, "File required", {"Please upload a file"}))]
         /\ UNCHANGED <<disk, nextFile>>
       ELSE IF file # Absent /\ onDisk THEN
         /\ disk' = disk \cup {nextFile}
         /\ nextFile' = nextFile + 1
         /\ req' = [req EXCEPT ![r] = [q EXCEPT !.pc = "handler", !.path = nextFile]]
       ELSE
         /\ req' = [req EXCEPT ![r] = [q EXCEPT !.pc = "handler"]]
         /\ UNCHANGED <<disk, nextFile>>
  /\ UNCHANGED <<now, strategy, admins, notices, gallery, remote,
                 nextNotice, nextGallery, nextAdmin, issued, creators>>

\* multer aborting an upload with disk storage: the file already written (whole,
\* or cut at the size limit) is removed again, then handleMulterError answers
multerAbort(r) ==
  LET q == req[r] IN
  /\ q.pc = "abort"
  /\ disk' = disk \ {q.path}
  /\ req' = [req EXCEPT ![r] = Answer(q, handleMulterError(MulterErrorCode(q.parts)))]
  /\ UNCHANGED <<now, strategy, admins, notices, gallery, remote, nextFile,
                 nextNotice, nextGallery, nextAdmin, issued, creators>>

\* ------------------------------------------------- storage collaborators
\* outcomes of cloudinary.uploader.destroy: the file is removed ("ok"), the
\* provider answers without removing it ("not found"), or the call rejects
DestroyOutcomes == {"ok", "not found", "throw"}

RemoteAfterDestroy(pid, outcome) == IF outcome = "ok" THEN remote \ {pid} ELSE remote

\* config/cloudinary.ts deleteFromCloudinary: result.result === 'ok', false on a throw
deleteFromCloudinary(outcome) == outcome = "ok"

\* utils/fileHelpers.ts deleteFile: the directory after unlinking f; a failing
\* unlink is caught and leaves the file
DiskAfterDeleteFile(f, unlinkOk) == IF unlinkOk THEN disk \ {f} ELSE disk

NoticeUnchanged == UNCHANGED <<notices, nextNotice>>
GalleryUnchanged == UNCHANGED <<gallery, nextGallery>>
AdminsUnchanged == UNCHANGED <<admins, nextAdmin, issued, creators>>

\* ------------------------------------- NoticeController, Cloudinary variant
\* createNotice up to its first await: validateNotice, noticeData, and the
\* temporary file written for the upload
createNotice(r) ==
  LET q == req[r]
      errs == validateNoticeErrors(q.body)
      v == validateNoticeValue(q.body)
      noticeData == [title |-> v.title, description |-> v.description,
                     date |-> IF v.date # NoDate THEN v.date ELSE now,
                     attachment |-> Absent,
                     createdBy |-> q.admin, updatedBy |-> q.admin,
                     createdAt |-> NoDate, updatedAt |-> NoDate]
  IN
  /\ strategy = "remote" /\ q.op = "createNotice" /\ q.pc = "handler"
  /\ IF errs # {} THEN
       /\ req' = [req EXCEPT ![r] = Answer(q, Response(400, "Validation error", errs))]
       /\ UNCHANGED <<disk, nextFile>>
     ELSE IF q.file # Absent THEN
       /\ disk' = disk \cup {nextFile}
       /\ nextFile' = nextFile + 1
       /\ req' = [req EXCEPT ![r] =
            [q EXCEPT !.data = noticeData, !.tmp = nextFile, !.pc = "upload"]]
     ELSE
       /\ req' = [req EXCEPT ![r] = [q EXCEPT !.data = noticeData, !.pc = "save"]]
       /\ UNCHANGED <<disk, nextFile>>
  /\ UNCHANGED <<now, strategy, remote, gallery, nextGallery>>
  /\ NoticeUnchanged /\ AdminsUnchanged

\* uploadToCloudinary(tempFilePath), then fs.unlinkSync(tempFilePath) and the
\* attachment object; a rejected upload is answered 500 by the inner catch
\* (createNotice and updateNotice share these lines)
noticeUpload(r) ==
  LET q == req[r] IN
  /\ strategy = "remote" /\ q.op \in {"createNotice", "updateNotice"} /\ q.pc = "upload"
  /\ \E uploadOk \in BOOLEAN :
       IF uploadOk THEN
         /\ remote' = remote \cup {q.tmp}
         /\ disk' = disk \ {q.tmp}
         /\ req' = [req EXCEPT ![r] =
              [q EXCEPT !.data = [q.data EXCEPT !.attachment =
                                     [path |-> NoFile, publicId |-> q.tmp]],
                        !.uploaded = q.tmp,
                        !.pc = IF q.op = "createNotice" THEN "save" ELSE "persist"]]
       ELSE
         /\ req' = [req EXCEPT ![r] =
              Answer(q, Response(500, "Failed to upload file to cloud storage", {}))]
         /\ UNCHANGED <<remote, disk>>
  /\ UNCHANGED <<now, strategy, gallery, nextGallery, nextFile>>
  /\ NoticeUnchanged /\ AdminsUnchanged

\* new Notice(noticeData): the attachment cast by its schema
NewNotice(data) == [data EXCEPT !.attachment = CastAttachment(data.attachment)]

\* noticeSchema { timestamps: true } on the insert
Timestamps(doc, t) == [doc EXCEPT !.createdAt = t, !.updatedAt = t]

\* notice.save(): the schema validators, the pre('save') date hook, the insert
NoticeSaveFails(doc, storeOk) ==
  \/ NoticeSchemaErrors(doc) # {}
  \/ PreSaveDateError(doc, now)
  \/ ~storeOk

\* createNotice from notice.save() on: 201, or the outer catch's 500
createNoticeSave(r) ==
  LET q == req[r]
      doc == NewNotice(q.data)
  IN
  /\ strategy = "remote" /\ q.op = "createNotice" /\ q.pc = "save"
  /\ \E storeOk \in BOOLEAN :
       IF NoticeSaveFails(doc, storeOk) THEN
         /\ req' = [req EXCEPT ![r] =
              Answer([q EXCEPT !.persist = "failed"],
                     Response(500, "Internal server error while creating notice", {}))]
         /\ NoticeUnchanged
       ELSE
         /\ notices' = [notices EXCEPT ![nextNotice] = Timestamps(doc, now)]
         /\ nextNotice' = nextNotice + 1
         /\ req' = [req EXCEPT ![r] =
              Answer([q EXCEPT !.persist = "ok", !.id = nextNotice],
                     Response(201, "Notice created successfully", {}))]
  /\ UNCHANGED <<now, strategy, remote, disk, gallery, nextGallery, nextFile>>
  /\ AdminsUnchanged

\* updateNotice up to its second await: findById, validateNotice, updateData
updateNotice(r) ==
  LET q == req[r]
      existingNotice == notices[q.id]
      errs == validateNoticeErrors(q.body)
      v == validateNoticeValue(q.body)
      updateData == [title |-> v.title, description |-> v.description,
                     date |-> IF v.date # NoDate THEN v.date ELSE existingNotice.date,
                     attachment |-> Absent,     \* no attachment key yet
                     updatedBy |-> q.admin]
      hasOld == existingNotice.attachment # Absent
                /\ existingNotice.attachment.publicId # NoFile
  IN
  /\ strategy = "remote" /\ q.op = "updateNotice" /\ q.pc = "handler"
  /\ IF existingNotice = Absent THEN
       /\ req' = [req EXCEPT ![r] = Answer(q, Response(404, "Notice not found", {}))]
       /\ UNCHANGED <<disk, nextFile>>
     ELSE IF errs # {} THEN
       /\ req' = [req EXCEPT ![r] =
            Answer([q EXCEPT !.existing = existingNotice],
                   Response(400, "Validation error", errs))]
       /\ UNCHANGED <<disk, nextFile>>
     ELSE IF q.file # Absent /\ hasOld THEN
       /\ req' = [req EXCEPT ![r] =
            [q EXCEPT !.existing = existingNotice, !.data = updateData,
                      !.pc = "deleteOld"]]
       /\ UNCHANGED <<disk, nextFile>>
     ELSE IF q.file # Absent THEN
       /\ disk' = disk \cup {nextFile}
       /\ nextFile' = nextFile + 1
       /\ req' = [req EXCEPT ![r] =
            [q EXCEPT !.existing = existingNotice, !.data = updateData,
                      !.tmp = nextFile, !.pc = "upload"]]
     ELSE
       /\ req' = [req EXCEPT ![r] =
            [q EXCEPT !.existing = existingNotice, !.data = updateData,
                      !.pc = "persist"]]
       /\ UNCHANGED <<disk, nextFile>>
  /\ UNCHANGED <<now, strategy, remote, gallery, nextGallery>>
  /\ NoticeUnchanged /\ AdminsUnchanged

\* updateNotice: await deleteFromCloudinary(existingNotice.attachment.publicId),
\* its result dropped, then the temporary file for the upload
updateNoticeDeleteOld(r) ==
  LET q == req[r] IN
  /\ strategy = "remote" /\ q.op = "updateNotice" /\ q.pc = "deleteOld"
  /\ \E outcome \in DestroyOutcomes :
       /\ remote' = RemoteAfterDestroy(q.existing.attachment.publicId, outcome)
       /\ req' = [req EXCEPT ![r] =
            [q EXCEPT !.oldDeleted =
                         IF deleteFromCloudinary(outcome) THEN "ok" ELSE "failed",
                      !.tmp = nextFile, !.pc = "upload"]]
  /\ disk' = disk \cup {nextFile}
  /\ nextFile' = nextFile + 1
  /\ UNCHANGED <<now, strategy, gallery, nextGallery>>
  /\ NoticeUnchanged /\ AdminsUnchanged

\* findByIdAndUpdate(id, updateData, { new: true, runValidators: true }):
\* update validators of the paths set; document middleware (pre('save')) is not run
NoticeUpdateFails(data, storeOk) ==
  \/ NoticeSchemaErrors([data EXCEPT !.attachment = CastAttachment(data.attachment)]) # {}
  \/ ~storeOk

\* a $set that writes the attachment key whether updateData has it or not
ApplyUpdateWholeDocument(doc, data) ==
  [doc EXCEPT !.title = data.title, !.description = data.description,
              !.date = data.date, !.updatedBy = data.updatedBy,
              !.updatedAt = now,
              !.attachment = CastAttachment(data.attachment)]

\* the document after $set of updateData: attachment only when the key is
\* there; timestamps: true sets updatedAt
ApplyUpdate(doc, data) ==
  [doc EXCEPT !.title = data.title, !.description = data.description,
              !.date = data.date, !.updatedBy = data.updatedBy,
              !.updatedAt = now,
              !.attachment = IF data.attachment = Absent THEN @
                             ELSE CastAttachment(data.attachment)]

\* an updateNotice whose outer catch destroys the file it has just uploaded
updateNoticePersistCompensating(r) ==
  LET q == req[r] IN
  /\ strategy = "remote" /\ q.op = "updateNotice" /\ q.pc = "persist"
  /\ \E storeOk \in BOOLEAN :
       IF NoticeUpdateFails(q.data, storeOk) THEN
         /\ req' = [req EXCEPT ![r] =
              Answer([q EXCEPT !.persist = "failed"],
                     Response(500, "Internal server error while updating notice", {}))]
         /\ remote' = remote \ {q.uploaded}
         /\ NoticeUnchanged
       ELSE
         /\ notices' = IF notices[q.id] = Absent THEN notices
                       ELSE [notices EXCEPT ![q.id] = ApplyUpdate(@, q.data)]
         /\ UNCHANGED <<nextNotice, remote>>
         /\ req' = [req EXCEPT ![r] =
              Answer([q EXCEPT !.persist = IF notices[q.id] = Absent THEN "none" ELSE "ok"],
                     Response(200, "Notice updated successfully", {}))]
  /\ UNCHANGED <<now, strategy, disk, gallery, nextGallery, nextFile>>
  /\ AdminsUnchanged

\* updateNotice from findByIdAndUpdate on: 200 (also when no document matched
\* and the result is null), or the outer catch's 500
updateNoticePersist(r) ==
  LET q == req[r] IN
  /\ strategy = "remote" /\ q.op = "updateNotice" /\ q.pc = "persist"
  /\ \E storeOk \in BOOLEAN :
       IF NoticeUpdateFails(q.data, storeOk) THEN
         /\ req' = [req EXCEPT ![r] =
              Answer([q EXCEPT !.persist = "failed"],
                     Response(500, "Internal server error while updating notice", {}))]
         /\ NoticeUnchanged
       ELSE
         /\ notices' = IF notices[q.id] = Absent THEN notices
                       ELSE [notices EXCEPT ![q.id] = ApplyUpdate(@, q.data)]
         /\ UNCHANGED nextNotice
         /\ req' = [req EXCEPT ![r] =
              Answer([q EXCEPT !.persist = IF notices[q.id] = Absent THEN "none" ELSE "ok"],
                     Response(200, "Notice updated successfully", {}))]
  /\ UNCHANGED <<now, strategy, remote, disk, gallery, nextGallery, nextFile>>
  /\ AdminsUnchanged

\* deleteNotice up to deleteFromCloudinary: findById and the 404
deleteNotice(r) ==
  LET q == req[r]
      notice == notices[q.id]
  IN
  /\ strategy = "remote" /\ q.op = "deleteNotice" /\ q.pc = "handler"
  /\ req' = [req EXCEPT ![r] =
       IF notice = Absent THEN Answer(q, Response(404, "Notice not found", {}))
       ELSE [q EXCEPT !.existing = notice,
                      !.pc = IF notice.attachment # Absent
                                /\ notice.attachment.publicId # NoFile
                             THEN "deleteFile" ELSE "deleteRecord"]]
  /\ UNCHANGED <<now, strategy, remote, disk, gallery, nextGallery, nextFile>>
  /\ NoticeUnchanged /\ AdminsUnchanged

\* deleteNotice: await deleteFromCloudinary(publicId) inside try / catch
deleteNoticeFile(r) ==
  LET q == req[r] IN
  /\ strategy = "remote" /\ q.op = "deleteNotice" /\ q.pc = "deleteFile"
  /\ \E outcome \in DestroyOutcomes :
       /\ remote' = RemoteAfterDestroy(q.existing.attachment.publicId, outcome)
       /\ req' = [req EXCEPT ![r] =
            [q EXCEPT !.oldDeleted =
                         IF deleteFromCloudinary(outcome) THEN "ok" ELSE "failed",
                      !.pc = "deleteRecord"]]
  /\ UNCHANGED <<now, strategy, disk, gallery, nextGallery, nextFile>>
  /\ NoticeUnchanged /\ AdminsUnchanged

\* deleteNotice from Notice.findByIdAndDelete(id) on (both variants)
deleteNoticeRecord(r) ==
  LET q == req[r] IN
  /\ q.op = "deleteNotice" /\ q.pc = "deleteRecord"
  /\ \E storeOk \in BOOLEAN :
       IF storeOk THEN
         /\ notices' = [notices EXCEPT ![q.id] = Absent]
         /\ req' = [req EXCEPT ![r] =
              Answer([q EXCEPT !.persist = "ok"],
                     Response(200, "Notice deleted successfully", {}))]
       ELSE
         /\ UNCHANGED notices
         /\ req' = [req EXCEPT ![r] =
              Answer([q EXCEPT !.persist = "failed"],
                     Response(500, "Internal server error while deleting notice", {}))]
  /\ UNCHANGED <<now, strategy, remote, disk, gallery, nextGallery, nextFile, nextNotice>>
  /\ AdminsUnchanged

\* -------------------------------------- NoticeController, local-disk variant
\* createNotice up to notice.save(): validateNotice, the uploaded file removed
\* again when the body is invalid, noticeData with req.file.path
createNoticeLocal(r) ==
  LET q == req[r]
      errs == validateNoticeErrors(q.body)
      v == validateNoticeValue(q.body)
      noticeData == [title |-> v.title, description |-> v.description,
                     date |-> IF v.date # NoDate THEN v.date ELSE now,
                     attachment |-> IF q.file # Absent
                                    THEN [path |-> q.path, publicId |-> NoFile]
                                    ELSE Absent,
                     createdBy |-> q.admin, updatedBy |-> q.admin,
                     createdAt |-> NoDate, updatedAt |-> NoDate]
  IN
  /\ strategy = "local" /\ q.op = "createNotice" /\ q.pc = "handler"
  /\ IF errs # {} THEN
       /\ req' = [req EXCEPT ![r] = Answer(q, Response(400, "Validation error", errs))]
       /\ IF q.file # Absent
            THEN \E unlinkOk \in BOOLEAN : disk' = DiskAfterDeleteFile(q.path, unlinkOk)
            ELSE UNCHANGED disk
     ELSE
       /\ req' = [req EXCEPT ![r] = [q EXCEPT !.data = noticeData, !.pc = "save"]]
       /\ UNCHANGED disk
  /\ UNCHANGED <<now, strategy, remote, gallery, nextGallery, nextFile>>
  /\ NoticeUnchanged /\ AdminsUnchanged

\* createNotice from notice.save() on: 201, or the outer catch that deletes
\* the uploaded file and answers 500
createNoticeLocalSave(r) ==
  LET q == req[r]
      doc == NewNotice(q.data)
  IN
  /\ strategy = "local" /\ q.op = "createNotice" /\ q.pc = "save"
  /\ \E storeOk \in BOOLEAN :
       IF NoticeSaveFails(doc, storeOk) THEN
         /\ req' = [req EXCEPT ![r] =
              Answer([q EXCEPT !.persist = "failed"],
                     Response(500, "Internal server error while creating notice", {}))]
         /\ IF q.file # Absent
              THEN \E unlinkOk \in BOOLEAN : disk' = DiskAfterDeleteFile(q.path, unlinkOk)
              ELSE UNCHANGED disk
         /\ NoticeUnchanged
       ELSE
         /\ notices' = [notices EXCEPT ![nextNotice] = Timestamps(doc, now)]
         /\ nextNotice' = nextNotice + 1
         /\ UNCHANGED disk
         /\ req' = [req EXCEPT ![r] =
              Answer([q EXCEPT !.persist = "ok", !.id = nextNotice],
                     Response(201, "Notice created successfully", {}))]
  /\ UNCHANGED <<now, strategy, remote, gallery, nextGallery, nextFile>>
  /\ AdminsUnchanged

\* updateNotice up to the old file's deletion: findById, validateNotice,
\* the uploaded file removed again on 404 and 400, updateData
updateNoticeLocal(r) ==
  LET q == req[r]
      existingNotice == notices[q.id]
      errs == validateNoticeErrors(q.body)
      v == validateNoticeValue(q.body)
      updateData == [title |-> v.title, description |-> v.description,
                     date |-> IF v.date # NoDate THEN v.date ELSE existingNotice.date,
                     attachment |-> IF q.file # Absent
                                    THEN [path |-> q.path, publicId |-> NoFile]
                                    ELSE Absent,
                     updatedBy |-> q.admin]
      hasOld == existingNotice.attachment # Absent
                /\ existingNotice.attachment.path # NoFile
  IN
  /\ strategy = "local" /\ q.op = "updateNotice" /\ q.pc = "handler"
  /\ IF existingNotice = Absent \/ errs # {} THEN
       /\ req' = [req EXCEPT ![r] =
            IF existingNotice = Absent
              THEN Answer(q, Response(404, "Notice not found", {}))
              ELSE Answer([q EXCEPT !.existing = existingNotice],
                          Response(400, "Validation error", errs))]
       /\ IF q.file # Absent
            THEN \E unlinkOk \in BOOLEAN : disk' = DiskAfterDeleteFile(q.path, unlinkOk)
            ELSE UNCHANGED disk
     ELSE
       /\ req' = [req EXCEPT ![r] =
            [q EXCEPT !.existing = existingNotice, !.data = updateData,
                      !.pc = IF q.file # Absent /\ hasOld THEN "deleteOld" ELSE "persist"]]
       /\ UNCHANGED disk
  /\ UNCHANGED <<now, strategy, remote, gallery, nextGallery, nextFile>>
  /\ NoticeUnchanged /\ AdminsUnchanged

\* an update that leaves the old file where it is
updateNoticeLocalKeepOld(r) ==
  LET q == req[r] IN
  /\ strategy = "local" /\ q.op = "updateNotice" /\ q.pc = "deleteOld"
  /\ req' = [req EXCEPT ![r] = [q EXCEPT !.pc = "persist"]]
  /\ UNCHANGED <<now, strategy, remote, disk, gallery, nextGallery, nextFile>>
  /\ NoticeUnchanged /\ AdminsUnchanged

\* updateNotice: await deleteFile(existingNotice.attachment.path)
updateNoticeLocalDeleteOld(r) ==
  LET q == req[r] IN
  /\ strategy = "local" /\ q.op = "updateNotice" /\ q.pc = "deleteOld"
  /\ \E unlinkOk \in BOOLEAN :
       /\ disk' = DiskAfterDeleteFile(q.existing.attachment.path, unlinkOk)
       /\ req' = [req EXCEPT ![r] =
            [q EXCEPT !.oldDeleted = IF unlinkOk THEN "ok" ELSE "failed",
                      !.pc = "persist"]]
  /\ UNCHANGED <<now, strategy, remote, gallery, nextGallery, nextFile>>
  /\ NoticeUnchanged /\ AdminsUnchanged

\* updateNotice from findByIdAndUpdate on: 200, or the outer catch that
\* deletes the uploaded file and answers 500
updateNoticeLocalPersist(r) ==
  LET q == req[r] IN
  /\ strategy = "local" /\ q.op = "updateNotice" /\ q.pc = "persist"
  /\ \E storeOk \in BOOLEAN :
       IF NoticeUpdateFails(q.data, storeOk) THEN
         /\ req' = [req EXCEPT ![r] =
              Answer([q EXCEPT !.persist = "failed"],
                     Response(500, "Internal server error while updating notice", {}))]
         /\ IF q.file # Absent
              THEN \E unlinkOk \in BOOLEAN : disk' = DiskAfterDeleteFile(q.path, unlinkOk)
              ELSE UNCHANGED disk
         /\ NoticeUnchanged
       ELSE
         /\ notices' = IF notices[q.id] = Absent THEN notices
                       ELSE [notices EXCEPT ![q.id] = ApplyUpdate(@, q.data)]
         /\ UNCHANGED <<nextNotice, disk>>
         /\ req' = [req EXCEPT ![r] =
              Answer([q EXCEPT !.persist = IF notices[q.id] = Absent THEN "none" ELSE "ok"],
                     Response(200, "Notice updated successfully", {}))]
  /\ UNCHANGED <<now, strategy, remote, gallery, nextGallery, nextFile>>
  /\ AdminsUnchanged

\* a deleteNotice that goes to findByIdAndDelete without touching the file
deleteNoticeLocalRecordOnly(r) ==
  LET q == req[r]
      notice == notices[q.id]
  IN
  /\ strategy = "local" /\ q.op = "deleteNotice" /\ q.pc = "handler"
  /\ req' = [req EXCEPT ![r] =
       IF notice = Absent THEN Answer(q, Response(404, "Notice not found", {}))
       ELSE [q EXCEPT !.existing = notice, !.pc = "deleteRecord"]]
  /\ UNCHANGED <<now, strategy, remote, disk, gallery, nextGallery, nextFile>>
  /\ NoticeUnchanged /\ AdminsUnchanged

\* deleteNotice up to deleteFile: findById and the 404
deleteNoticeLocal(r) ==
  LET q == req[r]
      notice == notices[q.id]
  IN
  /\ strategy = "local" /\ q.op = "deleteNotice" /\ q.pc = "handler"
  /\ req' = [req EXCEPT ![r] =
       IF notice = Absent THEN Answer(q, Response(404, "Notice not found", {}))
       ELSE [q EXCEPT !.existing = notice,
                      !.pc = IF notice.attachment # Absent
                                /\ notice.attachment.path # NoFile
                             THEN "deleteFile" ELSE "deleteRecord"]]
  /\ UNCHANGED <<now, strategy, remote, disk, gallery, nextGallery, nextFile>>
  /\ NoticeUnchanged /\ AdminsUnchanged

\* deleteNotice: await deleteFile(notice.attachment.path), its result dropped
deleteNoticeLocalFile(r) ==
  LET q == req[r] IN
  /\ strategy = "local" /\ q.op = "deleteNotice" /\ q.pc = "deleteFile"
  /\ \E unlinkOk \in BOOLEAN :
       /\ disk' = DiskAfterDeleteFile(q.existing.attachment.path, unlinkOk)
       /\ req' = [req EXCEPT ![r] =
            [q EXCEPT !.oldDeleted = IF unlinkOk THEN "ok" ELSE "failed",
                      !.pc = "deleteRecord"]]
  /\ UNCHANGED <<now, strategy, remote, gallery, nextGallery, nextFile>>
  /\ NoticeUnchanged /\ AdminsUnchanged

\* ------------------------------------------------------ galleryController
\* a handler wrapped in asyncHandler throws: the error reaches errorHandler
\* through next(); the status set on res before the throw is overwritten
Throw(q, error) == Answer(q, errorHandler(error))

\* uploadImageToGallery up to cloudinaryUtils.upload: the required fields and
\* the date
uploadImageToGallery(r) ==
  LET q == req[r]
      b == q.body
      noTitle == b.title = Absent \/ b.title.len = 0
  IN
  /\ q.op = "uploadImageToGallery" /\ q.pc = "handler"
  /\ req' = [req EXCEPT ![r] =
       IF q.file = Absent THEN Throw(q, PlainError("No file uploaded"))
       ELSE IF noTitle \/ b.category = ""
         THEN Throw(q, PlainError("Title and category are required"))
       ELSE IF b.date = InvalidDate THEN Throw(q, PlainError("Invalid date format"))
       ELSE [q EXCEPT !.data = [title |-> b.title, description |-> b.description,
                                category |-> b.category,
                                date |-> IF b.date # NoDate THEN b.date ELSE now,
                                image |-> [url |-> NoFile, publicId |-> NoFile],
                                uploadedBy |-> q.admin],
                      !.pc = "upload"]]
  /\ UNCHANGED <<now, strategy, remote, disk, nextFile>>
  /\ NoticeUnchanged /\ GalleryUnchanged /\ AdminsUnchanged

\* await cloudinaryUtils.upload(req.file.buffer, folder)
galleryUpload(r) ==
  LET q == req[r] IN
  /\ q.op = "uploadImageToGallery" /\ q.pc = "upload"
  /\ \E uploadOk \in BOOLEAN :
       IF uploadOk THEN
         /\ remote' = remote \cup {nextFile}
         /\ nextFile' = nextFile + 1
         /\ req' = [req EXCEPT ![r] =
              [q EXCEPT !.data = [q.data EXCEPT !.image =
                                     [url |-> nextFile, publicId |-> nextFile]],
                        !.uploaded = nextFile, !.pc = "save"]]
       ELSE
         /\ req' = [req EXCEPT ![r] = Throw(q, CloudError)]
         /\ UNCHANGED <<remote, nextFile>>
  /\ UNCHANGED <<now, strategy, disk>>
  /\ NoticeUnchanged /\ GalleryUnchanged /\ AdminsUnchanged

\* await Gallery.create({...}) and the 201
galleryCreate(r) ==
  LET q == req[r]
      errs == GallerySchemaErrors(q.data)
  IN
  /\ q.op = "uploadImageToGallery" /\ q.pc = "save"
  /\ \E storeOk \in BOOLEAN :
       IF errs # {} \/ ~storeOk THEN
         /\ req' = [req EXCEPT ![r] =
              Throw([q EXCEPT !.persist = "failed"],
                    IF errs # {} THEN ValidationError(errs) ELSE StoreError)]
         /\ GalleryUnchanged
       ELSE
         /\ gallery' = [gallery EXCEPT ![nextGallery] = q.data]
         /\ nextGallery' = nextGallery + 1
         /\ req' = [req EXCEPT ![r] =
              Answer([q EXCEPT !.persist = "ok", !.id = nextGallery],
                     Response(201, "Image uploaded successfully", {}))]
  /\ UNCHANGED <<now, strategy, remote, disk, nextFile>>
  /\ NoticeUnchanged /\ AdminsUnchanged

\* deleteGalleryImage up to cloudinaryUtils.delete: findById and the 404 throw
deleteGalleryImage(r) ==
  LET q == req[r]
      image == gallery[q.id]
  IN
  /\ q.op = "deleteGalleryImage" /\ q.pc = "handler"
  /\ req' = [req EXCEPT ![r] =
       IF image = Absent THEN Throw(q, PlainError("Image not found"))
       ELSE [q EXCEPT !.existing = image,
                      !.pc = IF image.image.publicId # NoFile
                             THEN "deleteFile" ELSE "deleteRecord"]]
  /\ UNCHANGED <<now, strategy, remote, disk, nextFile>>
  /\ NoticeUnchanged /\ GalleryUnchanged /\ AdminsUnchanged

\* await cloudinaryUtils.delete(publicId): cloudinary.uploader.destroy, not caught
deleteGalleryFile(r) ==
  LET q == req[r] IN
  /\ q.op = "deleteGalleryImage" /\ q.pc = "deleteFile"
  /\ \E outcome \in DestroyOutcomes :
       /\ remote' = RemoteAfterDestroy(q.existing.image.publicId, outcome)
       /\ req' = [req EXCEPT ![r] =
            IF outcome = "throw"
              THEN Throw([q EXCEPT !.oldDeleted = "failed"], CloudError)
              ELSE [q EXCEPT !.oldDeleted = IF outcome = "ok" THEN "ok" ELSE "failed",
                             !.pc = "deleteRecord"]]
  /\ UNCHANGED <<now, strategy, disk, nextFile>>
  /\ NoticeUnchanged /\ GalleryUnchanged /\ AdminsUnchanged

\* await image.deleteOne() and the 200
deleteGalleryRecord(r) ==
  LET q == req[r] IN
  /\ q.op = "deleteGalleryImage" /\ q.pc = "deleteRecord"
  /\ \E storeOk \in BOOLEAN :
       IF storeOk THEN
         /\ gallery' = [gallery EXCEPT ![q.id] = Absent]
         /\ req' = [req EXCEPT ![r] =
              Answer([q EXCEPT !.persist = "ok"],
                     Response(200, "Image deleted successfully", {}))]
       ELSE
         /\ UNCHANGED gallery
         /\ req' = [req EXCEPT ![r] = Throw([q EXCEPT !.persist = "failed"], StoreError)]
  /\ UNCHANGED <<now, strategy, remote, disk, nextFile, nextGallery>>
  /\ NoticeUnchanged /\ AdminsUnchanged

\* updateGalleryImage up to image.save(): findById, the fields, the date
updateGalleryImage(r) ==
  LET q == req[r]
      image == gallery[q.id]
      b == q.body
      given(s) == s # Absent /\ s.len > 0
  IN
  /\ q.op = "updateGalleryImage" /\ q.pc = "handler"
  /\ req' = [req EXCEPT ![r] =
       IF image = Absent THEN Throw(q, PlainError("Image not found"))
       ELSE IF b.date = InvalidDate
         THEN Throw([q EXCEPT !.existing = image], PlainError("Invalid date format"))
       ELSE [q EXCEPT !.existing = image,
                      !.data = [image EXCEPT
                         !.title = IF given(b.title) THEN b.title ELSE @,
                         !.description = IF given(b.description) THEN b.description ELSE @,
                         !.category = IF b.category # "" THEN b.category ELSE @,
                         !.date = IF b.date # NoDate THEN b.date ELSE @],
                      !.pc = "save"]]
  /\ UNCHANGED <<now, strategy, remote, disk, nextFile>>
  /\ NoticeUnchanged /\ GalleryUnchanged /\ AdminsUnchanged

\* await image.save() and the 200
updateGallerySave(r) ==
  LET q == req[r]
      errs == GallerySchemaErrors(q.data)
  IN
  /\ q.op = "updateGalleryImage" /\ q.pc = "save"
  /\ \E storeOk \in BOOLEAN :
       IF errs # {} \/ ~storeOk \/ gallery[q.id] = Absent THEN
         /\ req' = [req EXCEPT ![r] =
              Throw([q EXCEPT !.persist = "failed"],
                    IF errs # {} THEN ValidationError(errs) ELSE StoreError)]
         /\ UNCHANGED gallery
       ELSE
         /\ gallery' = [gallery EXCEPT ![q.id] =
              [@ EXCEPT !.title = q.data.title, !.description = q.data.description,
                        !.category = q.data.category, !.date = q.data.date]]
         /\ req' = [req EXCEPT ![r] =
              Answer([q EXCEPT !.persist = "ok"],
                     Response(200, "Image updated successfully", {}))]
  /\ UNCHANGED <<now, strategy, remote, disk, nextFile, nextGallery>>
  /\ NoticeUnchanged /\ AdminsUnchanged

\* --------------------------------------------------------- authController
\* POST /api/auth/signin arrives (a public route: no gate)
ArriveSignIn(r) ==
  /\ Free(r)
  /\ \E email \in EmailInputs \cup {Absent},
        password \in Passwords \cup {Plain("short")} :
       req' = [req EXCEPT ![r] =
         [IdleReq EXCEPT !.op = "signIn", !.email = email, !.password = password,
                         !.pc = "handler"]]
  /\ UNCHANGED <<now, strategy, admins, notices, gallery, remote, disk,
                 nextNotice, nextGallery, nextFile, nextAdmin, issued, creators>>

\* Admin.findOne({ email }): the filter is cast by the schema (lowercase, trim)
FindAdminByEmail(email) ==
  {a \in AdminIds : admins[a] # Absent /\ admins[a].email = NormalizeEmail(email)}

\* a signIn that tells an unknown email from a wrong password
signInRevealing(r) ==
  LET q == req[r]
      errors == validateSignInErrors([email |-> q.email, password |-> q.password])
      found == FindAdminByEmail(q.email)
  IN
  /\ q.op = "signIn" /\ q.pc = "handler"
  /\ req' = [req EXCEPT ![r] =
       IF errors # {} THEN Answer(q, Response(400, "Validation error", errors))
       ELSE IF found = {} THEN Answer(q, Response(404, "Admin not found", {}))
       ELSE LET a == CHOOSE x \in found : TRUE IN
         IF ~ComparePassword(q.password, admins[a].password)
           THEN Answer(q, Response(401, "Invalid credentials", {}))
           ELSE [q EXCEPT !.admin = a, !.data = SignToken(a, now), !.pc = "save"]]
  /\ UNCHANGED <<now, strategy, admins, notices, gallery, remote, disk,
                 nextNotice, nextGallery, nextFile, nextAdmin, issued, creators>>

\* signIn up to admin.save(): validateSignIn, findOne, bcrypt.compare, jwt.sign
signIn(r) ==
  LET q == req[r]
      errors == validateSignInErrors([email |-> q.email, password |-> q.password])
      found == FindAdminByEmail(q.email)
  IN
  /\ q.op = "signIn" /\ q.pc = "handler"
  /\ req' = [req EXCEPT ![r] =
       IF errors # {} THEN Answer(q, Response(400, "Validation error", errors))
       ELSE IF found = {} THEN Answer(q, Response(401, "Invalid credentials", {}))
       ELSE LET a == CHOOSE x \in found : TRUE IN
         IF ~ComparePassword(q.password, admins[a].password)
           THEN Answer(q, Response(401, "Invalid credentials", {}))
           ELSE [q EXCEPT !.admin = a, !.data = SignToken(a, now), !.pc = "save"]]
  /\ UNCHANGED <<now, strategy, admins, notices, gallery, remote, disk,
                 nextNotice, nextGallery, nextFile, nextAdmin, issued, creators>>

\* a pre('save') hook that hashes the password on every save
PreSaveAlwaysHash(doc, passwordModified) == [doc EXCEPT !.password = Hash(@)]

\* this.isModified('password'): the path was set to another value after the
\* document was loaded
IsModifiedPassword(loaded, doc) == doc.password # loaded.password

\* adminSchema.pre('save'): the password is hashed only when it was modified
PreSavePassword(doc, passwordModified) ==
  IF passwordModified THEN [doc EXCEPT !.password = Hash(@)] ELSE doc

\* signIn from admin.lastLogin = new Date(); await admin.save() on
signInSave(r) ==
  LET q == req[r] IN
  /\ q.op = "signIn" /\ q.pc = "save"
  /\ \E storeOk \in BOOLEAN :
       IF storeOk /\ admins[q.admin] # Absent THEN
         /\ admins' = [admins EXCEPT ![q.admin] =
              LET doc == [@ EXCEPT !.lastLogin = now]
              IN PreSavePassword(doc, IsModifiedPassword(@, doc))]
         /\ issued' = issued \cup {q.data}
         /\ req' = [req EXCEPT ![r] =
              Answer([q EXCEPT !.persist = "ok", !.cookie = Absent],
                     Response(200, "Authentication successful", {}))]
       ELSE
         /\ UNCHANGED <<admins, issued>>
         /\ req' = [req EXCEPT ![r] =
              Answer([q EXCEPT !.persist = "failed"],
                     Response(500, "Internal server error during authentication", {}))]
  /\ UNCHANGED <<now, strategy, notices, gallery, remote, disk,
                 nextNotice, nextGallery, nextFile, nextAdmin, creators>>

\* getProfile: Admin.findById(adminId), 404 when it is gone
getProfile(r) ==
  LET q == req[r] IN
  /\ q.op = "getProfile" /\ q.pc = "handler"
  /\ req' = [req EXCEPT ![r] =
       IF admins[q.admin] = Absent THEN Answer(q, Response(404, "Admin not found", {}))
       ELSE Answer(q, Response(200, "Profile retrieved successfully", {}))]
  /\ UNCHANGED <<now, strategy, admins, notices, gallery, remote, disk,
                 nextNotice, nextGallery, nextFile, nextAdmin, issued, creators>>

\* verifyToken: the gate has done the work
verifyToken(r) ==
  LET q == req[r] IN
  /\ q.op = "verifyToken" /\ q.pc = "handler"
  /\ req' = [req EXCEPT ![r] = Answer(q, Response(200, "Token is valid", {}))]
  /\ UNCHANGED <<now, strategy, admins, notices, gallery, remote, disk,
                 nextNotice, nextGallery, nextFile, nextAdmin, issued, creators>>

\* ------------------------------------------------ public read routes
\* a query-string value: a decimal integer followed by any text, or a word
Num(n, tail) == [lead |-> n, tail |-> tail]
Word == [word |-> "abc"]

\* parseInt: the leading integer of the text, NaN when there is none
NaN == [nan |-> TRUE]
ParseInt(v) ==
  IF v = Absent \/ v = Word THEN NaN ELSE [nan |-> FALSE, value |-> v.lead]

\* x || d on a number: NaN and 0 are falsy
OrDefault(x, d) == IF x = NaN \/ x.value = 0 THEN d ELSE x.value

\* skip = page * limit
SkipOfPage(page, limit) == page * limit

\* skip = (page - 1) * limit
SkipOf(page, limit) == (page - 1) * limit

\* Math.ceil(total / limit), limit # 0
Ceil(total, limit) ==
  IF limit > 0 THEN (total + limit - 1) \div limit ELSE 0 - (total \div (0 - limit))

\* the sort key { date: -1, createdAt: -1 }: TRUE when a comes before b
SortsBefore(a, b) ==
  \/ notices[a].date > notices[b].date
  \/ notices[a].date = notices[b].date /\ notices[a].createdAt > notices[b].createdAt
  \/ notices[a].date = notices[b].date /\ notices[a].createdAt = notices[b].createdAt
     /\ a <= b

RECURSIVE SortedSeq(_)
SortedSeq(ids) ==
  IF ids = {} THEN <<>>
  ELSE LET first == CHOOSE a \in ids : \A b \in ids : SortsBefore(a, b)
       IN <<first>> \o SortedSeq(ids \ {first})

\* Notice.find().sort({ date: -1, createdAt: -1 })
FindSorted == SortedSeq({n \in DOMAIN notices : notices[n] # Absent})

\* cursor.skip(k), k >= 0
Skip(seq, k) == SubSeq(seq, k + 1, Len(seq))

\* cursor.limit(l): the driver sends a negative limit as its absolute value
Limit(seq, l) ==
  LET m == IF l < 0 THEN 0 - l ELSE l
  IN SubSeq(seq, 1, IF m < Len(seq) THEN m ELSE Len(seq))

\* Notice.countDocuments()
CountDocuments == Cardinality({n \in DOMAIN notices : notices[n] # Absent})

\* what a client can send as page
PageInputs ==
  {Absent, Word, Num(0, ""), Num(1, ""), Num(2, ""), Num(3, ""), Num(0 - 1, "")}

\* what a client can send as limit
LimitInputs ==
  {Absent, Word, Num(0, ""), Num(1, ""), Num(2, ""), Num(2, ".5"),
   Num(LIMIT_MAX + 1, ""), Num(0 - 1, "")}

\* GET /api/notices: no gate, no validation middleware
ArriveGetAllNotices(r) ==
  /\ Free(r)
  /\ \E page \in PageInputs, limit \in LimitInputs :
       req' = [req EXCEPT ![r] =
         [IdleReq EXCEPT !.op = "getAllNotices", !.pc = "handler",
                         !.query = [page |-> page, limit |-> limit]]]
  /\ UNCHANGED <<now, strategy, admins, notices, gallery, remote, disk,
                 nextNotice, nextGallery, nextFile, nextAdmin, issued, creators>>

\* getAllNotices up to the find: page and limit from parseInt, the page read
\* with skip and limit; a negative skip makes the store reject the query
getAllNotices(r) ==
  LET q == req[r]
      page == OrDefault(ParseInt(q.query.page), DEFAULT_PAGE)
      limit == OrDefault(ParseInt(q.query.limit), DEFAULT_LIMIT)
      skip == SkipOf(page, limit)
  IN
  /\ q.op = "getAllNotices" /\ q.pc = "handler"
  /\ req' = [req EXCEPT ![r] =
       IF skip < 0
         THEN Answer([q EXCEPT !.list = [page |-> page, limit |-> limit, skip |-> skip]],
                     Response(500, "Internal server error while fetching notices", {}))
         ELSE [q EXCEPT !.pc = "count",
                        !.list = [page |-> page, limit |-> limit, skip |-> skip,
                                  notices |-> Limit(Skip(FindSorted, skip), limit)]]]
  /\ UNCHANGED <<now, strategy, admins, notices, gallery, remote, disk,
                 nextNotice, nextGallery, nextFile, nextAdmin, issued, creators>>

\* getAllNotices from countDocuments to the response
getAllNoticesCount(r) ==
  LET q == req[r]
      page == q.list.page
      limit == q.list.limit
      total == CountDocuments
      pagination ==
        [currentPage |-> page, totalPages |-> Ceil(total, limit),
         totalItems |-> total, itemsPerPage |-> limit,
         hasNextPage |-> page < Ceil(total, limit), hasPrevPage |-> page > 1]
  IN
  /\ q.op = "getAllNotices" /\ q.pc = "count"
  /\ req' = [req EXCEPT ![r] =
       Answer([q EXCEPT !.list = [page |-> page, limit |-> limit, skip |-> q.list.skip,
                                  notices |-> q.list.notices,
                                  pagination |-> pagination]],
              Response(200, "Notices retrieved successfully", {}))]
  /\ UNCHANGED <<now, strategy, admins, notices, gallery, remote, disk,
                 nextNotice, nextGallery, nextFile, nextAdmin, issued, creators>>

\* an :id that is not 24 hex characters
MalformedId == 0 - 1

\* what a client can put in :id of a read: the ids the store generates, one
\* more well-formed id, a malformed one
ReadIdInputs == NoticeIds \cup {MaxNotices + 1, MalformedId}

\* the cast of :id to ObjectId fails
CastError(id) == id = MalformedId

\* a findById that loses the title
findByIdUntitled(id) ==
  IF id \in DOMAIN notices /\ notices[id] # Absent
    THEN [notices[id] EXCEPT !.title = Absent] ELSE Absent

\* Notice.findById(id) for an id that casts
findById(id) == IF id \in DOMAIN notices THEN notices[id] ELSE Absent

\* GET /api/notices/:id: no gate, no validation middleware
ArriveGetNoticeById(r) ==
  /\ Free(r)
  /\ \E id \in ReadIdInputs :
       req' = [req EXCEPT ![r] =
         [IdleReq EXCEPT !.op = "getNoticeById", !.pc = "handler", !.id = id]]
  /\ UNCHANGED <<now, strategy, admins, notices, gallery, remote, disk,
                 nextNotice, nextGallery, nextFile, nextAdmin, issued, creators>>

\* getNoticeById: findById and the response; a CastError goes to the catch
getNoticeById(r) ==
  LET q == req[r]
      notice == findById(q.id)
  IN
  /\ q.op = "getNoticeById" /\ q.pc = "handler"
  /\ req' = [req EXCEPT ![r] =
       IF CastError(q.id)
         THEN Answer(q, Response(500, "Internal server error while fetching notice", {}))
       ELSE IF notice = Absent
         THEN Answer(q, Response(404, "Notice not found", {}))
       ELSE Answer([q EXCEPT !.list = notice],
                   Response(200, "Notice retrieved successfully", {}))]
  /\ UNCHANGED <<now, strategy, admins, notices, gallery, remote, disk,
                 nextNotice, nextGallery, nextFile, nextAdmin, issued, creators>>

\* ------------------------------------------------- utils/validators.ts
\* ^(?=.*[a-z])(?=.*[A-Z])(?=.*\d)(?=.*[@$!%*?&])[A-Za-z\d@$!%*?&] : the four
\* lookaheads, then one character of the class at the start; no end anchor
PasswordPattern(cs) ==
  LET lower == {"a", "b", "c", "d", "o", "p", "r", "s", "w"}
      upper == {"P"}
      digits == {"0", "1"}
      specials == {"@", "$", "!", "%", "*", "?", "&"}
      has(class) == \E i \in 1..Len(cs) : cs[i] \in class
  IN /\ has(lower) /\ has(upper) /\ has(digits) /\ has(specials)
     /\ Len(cs) > 0
     /\ cs[1] \in lower \cup upper \cup digits \cup specials

\* validateAdminRegistration(data).error, abortEarly: false: the rules of one
\* key all run on a value of the right base type; valid() is tested first
validateAdminRegistrationErrors(data) ==
  StringRuleErrors(Trim(data.name), NAME_MIN, NAME_MAX, "Name is required",
                   "Name must be at least 2 characters long",
                   "Name cannot exceed 50 characters")
  \cup
  EmailRuleErrors(data.email)
  \cup
  (IF data.password = Absent THEN {"Password is required"}
   ELSE IF Len(data.password.chars) = 0 THEN {"password is not allowed to be empty"}
   ELSE (IF Len(data.password.chars) < PASSWORD_MIN
           THEN {"Password must be at least 8 characters long"} ELSE {})
        \cup
        (IF ~PasswordPattern(data.password.chars)
           THEN {"Password must contain at least one uppercase letter, one lowercase letter, one digit, and one special character"}
           ELSE {}))
  \cup
  (IF data.role = Absent \/ data.role \in {[role |-> "admin"], [role |-> "super_admin"]}
     THEN {} ELSE {"Role must be either admin or super_admin"})

\* validateAdminRegistration(data).value: name trimmed, role defaulted
validateAdminRegistrationValue(data) ==
  [name |-> Trim(data.name), email |-> data.email, password |-> data.password,
   role |-> IF data.role = Absent THEN [role |-> "admin"] ELSE data.role]

\* Joi.number() with convert on a query-string value: the text must be a
\* number as a whole; a tail of ".5" is the fraction one half
ToNumber(v) ==
  IF v = Word \/ v.tail \notin {"", ".5"} THEN NaN
  ELSE [nan |-> FALSE, value |-> v.lead, integer |-> v.tail = ""]

\* number().integer().min(1): base, then every rule
NumberRuleErrors(v, base, notInteger, tooSmall) ==
  IF v = Absent THEN {}
  ELSE IF ToNumber(v) = NaN THEN {base}
  ELSE (IF ~ToNumber(v).integer THEN {notInteger} ELSE {})
       \cup (IF ToNumber(v).value < 1 THEN {tooSmall} ELSE {})

\* validateQueryParams(data).error, abortEarly: false
validateQueryParamsErrors(data) ==
  NumberRuleErrors(data.page, "Page must be a number", "Page must be an integer",
                   "Page must be at least 1")
  \cup
  NumberRuleErrors(data.limit, "Limit must be a number", "Limit must be an integer",
                   "Limit must be at least 1")
  \cup
  (IF data.limit # Absent /\ ToNumber(data.limit) # NaN
      /\ (\/ ToNumber(data.limit).value > LIMIT_MAX
          \/ ToNumber(data.limit).value = LIMIT_MAX /\ ~ToNumber(data.limit).integer)
     THEN {"Limit cannot exceed 100"} ELSE {})
  \cup
  (IF data.search = Absent THEN {}
   ELSE IF Trim(data.search).len = 0 THEN {"search is not allowed to be empty"}
   ELSE IF Trim(data.search).len > SEARCH_MAX
     THEN {"Search term cannot exceed 100 characters"}
   ELSE {})

\* validateQueryParams(data).value: numbers converted, defaults applied
validateQueryParamsValue(data) ==
  [page |-> IF data.page = Absent THEN DEFAULT_PAGE
            ELSE IF ToNumber(data.page) = NaN THEN 0 ELSE ToNumber(data.page).value,
   limit |-> IF data.limit = Absent THEN DEFAULT_LIMIT
             ELSE IF ToNumber(data.limit) = NaN THEN 0 ELSE ToNumber(data.limit).value,
   search |-> Trim(data.search)]

\* a validator is applied to one input of any shape: { error, value }
validateSignIn(r) ==
  /\ Free(r)
  /\ \E data \in
      [email : {Absent, Email("", FALSE, FALSE), Email("not-an-address", FALSE, FALSE), Email("a", FALSE, FALSE),
                Email("a", TRUE, TRUE)},
       password : {Absent, Plain(""), Plain("short"), Plain("Passw0rd!")}] :
       req' = [req EXCEPT ![r] =
         [IdleReq EXCEPT !.op = "validateSignIn", !.pc = "done", !.body = data,
                         !.errors = validateSignInErrors(data),
                         !.data = validateSignInValue(data)]]
  /\ UNCHANGED <<now, strategy, admins, notices, gallery, remote, disk,
                 nextNotice, nextGallery, nextFile, nextAdmin, issued, creators>>

\* validateNotice(data): noticeSchema.validate(data, { abortEarly: false })
validateNotice(r) ==
  /\ Free(r)
  /\ \E data \in
      [title : {Absent, Str(0, 2), Str(1, 0), ValidTitle, Str(TITLE_MAX + 1, 0)},
       description : {Absent, Str(DESCRIPTION_MIN - 1, 0), ValidDescription,
                      Str(DESCRIPTION_MAX + 1, 0)},
       date : {NoDate, InvalidDate, MAX_FUTURE_DAYS},
       category : {""}] :
       req' = [req EXCEPT ![r] =
         [IdleReq EXCEPT !.op = "validateNotice", !.pc = "done", !.body = data,
                         !.errors = validateNoticeErrors(data),
                         !.data = validateNoticeValue(data)]]
  /\ UNCHANGED <<now, strategy, admins, notices, gallery, remote, disk,
                 nextNotice, nextGallery, nextFile, nextAdmin, issued, creators>>

\* validateAdminRegistration(data): adminRegistrationSchema.validate
validateAdminRegistration(r) ==
  /\ Free(r)
  /\ \E data \in
      [name : {Absent, Str(1, 1), Str(NAME_MIN, 0), Str(NAME_MAX + 1, 0)},
       email : {Absent, Email("not-an-address", FALSE, FALSE), Email("a", FALSE, FALSE)},
       password : {Absent, [chars |-> <<>>], [chars |-> <<"P", "w", "1", "!">>],
                   [chars |-> <<"a", "b", "c">>],
                   [chars |-> <<"p", "a", "s", "s", "w", "o", "r", "d">>],
                   [chars |-> <<"-", "P", "a", "s", "s", "w", "0", "r", "d", "!">>],
                   [chars |-> <<"P", "a", "s", "s", "w", "0", "r", "d", "!">>]},
       role : {Absent, [role |-> "super_admin"], [role |-> "editor"]}] :
       req' = [req EXCEPT ![r] =
         [IdleReq EXCEPT !.op = "validateAdminRegistration", !.pc = "done", !.body = data,
                         !.errors = validateAdminRegistrationErrors(data),
                         !.data = validateAdminRegistrationValue(data)]]
  /\ UNCHANGED <<now, strategy, admins, notices, gallery, remote, disk,
                 nextNotice, nextGallery, nextFile, nextAdmin, issued, creators>>

\* validateQueryParams(data): queryParamsSchema.validate
validateQueryParams(r) ==
  /\ Free(r)
  /\ \E data \in
      [page : {Absent, Word, Num(0, ""), Num(0, ".5"), Num(2, ""), Num(2, "px")},
       limit : {Absent, Word, Num(0, ".5"), Num(5, ""), Num(LIMIT_MAX, ""),
                Num(LIMIT_MAX, ".5"), Num(LIMIT_MAX + 1, "")},
       search : {Absent, Str(0, 2), Str(3, 1), Str(SEARCH_MAX + 1, 0)}] :
       req' = [req EXCEPT ![r] =
         [IdleReq EXCEPT !.op = "validateQueryParams", !.pc = "done", !.body = data,
                         !.errors = validateQueryParamsErrors(data),
                         !.data = validateQueryParamsValue(data)]]
  /\ UNCHANGED <<now, strategy, admins, notices, gallery, remote, disk,
                 nextNotice, nextGallery, nextFile, nextAdmin, issued, creators>>

\* ------------------------------------------- admin records, out of band
CreatorIds == {1, 2}
IdleCreator == [pc |-> "idle", input |-> Absent, doc |-> Absent, status |-> 0, message |-> ""]

\* new Admin({...}) and the start of save(): the setters of the email path,
\* the pre('save') hash of the new password
createAdminBegin(c) ==
  /\ creators[c].pc = "idle"
  /\ \E email \in EmailInputs, password \in Passwords :
       creators' = [creators EXCEPT ![c] =
         [@ EXCEPT !.pc = "insert", !.input = email,
                   !.doc = PreSavePassword(
                             [email |-> NormalizeEmail(email), password |-> password,
                              isActive |-> TRUE, lastLogin |-> NoDate], TRUE)]]
  /\ UNCHANGED <<now, strategy, admins, notices, gallery, remote, disk,
                 nextNotice, nextGallery, nextFile, nextAdmin, issued, req>>

\* a collection whose email path carries no unique index
NoUniqueIndex(doc) == FALSE

\* email: unique: true, the index the store checks at the insert
UniqueEmailViolated(doc) ==
  \E a \in AdminIds : admins[a] # Absent /\ admins[a].email = doc.email

\* the insert of save(): one store operation; E11000 goes to errorHandler
createAdminInsert(c) ==
  LET k == creators[c] IN
  /\ k.pc = "insert"
  /\ IF UniqueEmailViolated(k.doc) THEN
       LET resp == errorHandler(DuplicateKeyError) IN
       /\ creators' = [creators EXCEPT ![c] =
            [@ EXCEPT !.pc = "done", !.status = resp.status, !.message = resp.message]]
       /\ UNCHANGED <<admins, nextAdmin>>
     ELSE
       /\ nextAdmin <= MaxAdmins
       /\ admins' = [admins EXCEPT ![nextAdmin] = k.doc]
       /\ nextAdmin' = nextAdmin + 1
       /\ creators' = [creators EXCEPT ![c] =
            [@ EXCEPT !.pc = "done", !.status = 201, !.message = "created"]]
  /\ UNCHANGED <<now, strategy, notices, gallery, remote, disk,
                 nextNotice, nextGallery, nextFile, issued, req>>

\* isActive set to false / true in the store
setAdminActive(a, flag) ==
  /\ admins[a] # Absent /\ admins[a].isActive # flag
  /\ admins' = [admins EXCEPT ![a] = [@ EXCEPT !.isActive = flag]]
  /\ UNCHANGED <<now, strategy, notices, gallery, remote, disk, nextNotice,
                 nextGallery, nextFile, nextAdmin, issued, req, creators>>

\* the admin document removed from the store
removeAdmin(a) ==
  /\ admins[a] # Absent
  /\ admins' = [admins EXCEPT ![a] = Absent]
  /\ UNCHANGED <<now, strategy, notices, gallery, remote, disk, nextNotice,
                 nextGallery, nextFile, nextAdmin, issued, req, creators>>

\* a day passes
Tick ==
  /\ now < MaxNow
  /\ now' = now + 1
  /\ UNCHANGED <<strategy, admins, notices, gallery, remote, disk, nextNotice,
                 nextGallery, nextFile, nextAdmin, issued, req, creators>>

\* ------------------------------------------------------------ behaviours
\* the deployment before any admin exists
Init ==
  /\ now = 0
  /\ strategy \in {"remote", "local"}
  /\ admins = [a \in AdminIds |-> Absent]
  /\ notices = [n \in NoticeIds |-> Absent]
  /\ gallery = [g \in GalleryIds |-> Absent]
  /\ remote = {}
  /\ disk = {}
  /\ nextNotice = 1
  /\ nextGallery = 1
  /\ nextFile = 1
  /\ nextAdmin = 1
  /\ issued = {}
  /\ req = [r \in ReqIds |-> IdleReq]
  /\ creators = [c \in CreatorIds |-> IdleCreator]

\* the admin the seed stores
SeedAdmin ==
  PreSavePassword([email |-> NormalizeEmail(Email("a", FALSE, FALSE)),
                   password |-> Plain("Passw0rd!"), isActive |-> TRUE,
                   lastLogin |-> NoDate], TRUE)

\* the deployment after the seed
InitSeeded ==
  /\ now = 0
  /\ strategy \in {"remote", "local"}
  /\ admins = [a \in AdminIds |-> IF a = 1 THEN SeedAdmin ELSE Absent]
  /\ notices = [n \in NoticeIds |-> Absent]
  /\ gallery = [g \in GalleryIds |-> Absent]
  /\ remote = {}
  /\ disk = {}
  /\ nextNotice = 1
  /\ nextGallery = 1
  /\ nextFile = 1
  /\ nextAdmin = 2
  /\ issued = {}
  /\ req = [r \in ReqIds |-> IdleReq]
  /\ creators = [c \in CreatorIds |-> IdleCreator]

\* the deployment after the seeded admin has signed in on day 0
InitSignedIn ==
  /\ now = 0
  /\ strategy \in {"remote", "local"}
  /\ admins = [a \in AdminIds |->
                 IF a = 1 THEN [SeedAdmin EXCEPT !.lastLogin = 0] ELSE Absent]
  /\ notices = [n \in NoticeIds |-> Absent]
  /\ gallery = [g \in GalleryIds |-> Absent]
  /\ remote = {}
  /\ disk = {}
  /\ nextNotice = 1
  /\ nextGallery = 1
  /\ nextFile = 1
  /\ nextAdmin = 2
  /\ issued = {SignToken(1, 0)}
  /\ req = [r \in ReqIds |-> IdleReq]
  /\ creators = [c \in CreatorIds |-> IdleCreator]

\* a notice the signed-in admin created on day 0 without a file
StoredNotice(n) ==
  Timestamps(NewNotice([title |-> ValidTitle, description |-> ValidDescription,
                        date |-> n % 2, attachment |-> Absent, createdBy |-> 1,
                        updatedBy |-> 1, createdAt |-> 0, updatedAt |-> 0]), 0)

\* the deployment with any number of notices in the store
InitList ==
  /\ now = 0
  /\ strategy \in {"remote", "local"}
  /\ admins = [a \in AdminIds |->
                 IF a = 1 THEN [SeedAdmin EXCEPT !.lastLogin = 0] ELSE Absent]
  /\ \E k \in 0..MaxListed :
       /\ notices = [n \in 1..MaxListed |-> IF n <= k THEN StoredNotice(n) ELSE Absent]
       /\ nextNotice = k + 1
  /\ gallery = [g \in GalleryIds |-> Absent]
  /\ remote = {}
  /\ disk = {}
  /\ nextGallery = 1
  /\ nextFile = 1
  /\ nextAdmin = 2
  /\ issued = {SignToken(1, 0)}
  /\ req = [r \in ReqIds |-> IdleReq]
  /\ creators = [c \in CreatorIds |-> IdleCreator]

\* admin records written out of band
NextAdmin ==
  \/ \E c \in CreatorIds : createAdminBegin(c)
  \/ \E c \in CreatorIds : createAdminInsert(c)

\* sign-in, the gate in front of every admin-only route, the admin records
\* changing under it and the clock; the requests the gate lets through to the
\* Notice and Gallery handlers are followed by NextNotice and NextGallery
NextAuth ==
  \/ \E r \in ReqIds : ArriveSignIn(r)
  \/ \E r \in ReqIds : signIn(r)
  \/ \E r \in ReqIds : signInSave(r)
  \/ \E r \in ReqIds : ArriveAuth(r)
  \/ \E r \in ReqIds : getProfile(r)
  \/ \E r \in ReqIds : verifyToken(r)
  \/ \E r \in ReqIds : ArriveCreateNotice(r)
  \/ \E r \in ReqIds : ArriveUpdateNotice(r)
  \/ \E r \in ReqIds : ArriveDeleteNotice(r)
  \/ \E r \in ReqIds : ArriveUploadImage(r)
  \/ \E r \in ReqIds : ArriveUpdateGallery(r)
  \/ \E r \in ReqIds : ArriveDeleteGallery(r)
  \/ \E a \in AdminIds, flag \in BOOLEAN : setAdminActive(a, flag)
  \/ \E a \in AdminIds : removeAdmin(a)
  \/ Tick

\* the create routes: the upload middleware and the create handlers
NextCreate ==
  \/ \E r \in ReqIds : ArriveCreateNotice(r)
  \/ \E r \in ReqIds : ArriveUploadImage(r)
  \/ \E r \in ReqIds : multerUpload(r)
  \/ \E r \in ReqIds : multerAbort(r)
  \/ \E r \in ReqIds : createNotice(r)
  \/ \E r \in ReqIds : noticeUpload(r)
  \/ \E r \in ReqIds : createNoticeSave(r)
  \/ \E r \in ReqIds : createNoticeLocal(r)
  \/ \E r \in ReqIds : createNoticeLocalSave(r)
  \/ \E r \in ReqIds : uploadImageToGallery(r)
  \/ \E r \in ReqIds : galleryUpload(r)
  \/ \E r \in ReqIds : galleryCreate(r)

\* the notice routes, both controllers.  updateNoticeDeleteOld and
\* deleteNoticeFile are left out: they need a stored attachment with a
\* publicId, and attachmentSchema stores none
NextNotice ==
  \/ \E r \in ReqIds : ArriveCreateNotice(r)
  \/ \E r \in ReqIds : ArriveUpdateNotice(r)
  \/ \E r \in ReqIds : ArriveDeleteNotice(r)
  \/ \E r \in ReqIds : multerUpload(r)
  \/ \E r \in ReqIds : multerAbort(r)
  \/ \E r \in ReqIds : createNotice(r)
  \/ \E r \in ReqIds : noticeUpload(r)
  \/ \E r \in ReqIds : createNoticeSave(r)
  \/ \E r \in ReqIds : updateNotice(r)
  \/ \E r \in ReqIds : updateNoticePersist(r)
  \/ \E r \in ReqIds : deleteNotice(r)
  \/ \E r \in ReqIds : deleteNoticeRecord(r)
  \/ \E r \in ReqIds : createNoticeLocal(r)
  \/ \E r \in ReqIds : createNoticeLocalSave(r)
  \/ \E r \in ReqIds : updateNoticeLocal(r)
  \/ \E r \in ReqIds : updateNoticeLocalDeleteOld(r)
  \/ \E r \in ReqIds : updateNoticeLocalPersist(r)
  \/ \E r \in ReqIds : deleteNoticeLocal(r)
  \/ \E r \in ReqIds : deleteNoticeLocalFile(r)
  \/ Tick

\* the gallery routes
NextGallery ==
  \/ \E r \in ReqIds : ArriveUploadImage(r)
  \/ \E r \in ReqIds : ArriveUpdateGallery(r)
  \/ \E r \in ReqIds : ArriveDeleteGallery(r)
  \/ \E r \in ReqIds : multerUpload(r)
  \/ \E r \in ReqIds : uploadImageToGallery(r)
  \/ \E r \in ReqIds : galleryUpload(r)
  \/ \E r \in ReqIds : galleryCreate(r)
  \/ \E r \in ReqIds : deleteGalleryImage(r)
  \/ \E r \in ReqIds : deleteGalleryFile(r)
  \/ \E r \in ReqIds : deleteGalleryRecord(r)
  \/ \E r \in ReqIds : updateGalleryImage(r)
  \/ \E r \in ReqIds : updateGallerySave(r)

\* the public list route
NextList ==
  \/ \E r \in ReqIds : ArriveGetAllNotices(r)
  \/ \E r \in ReqIds : getAllNotices(r)
  \/ \E r \in ReqIds : getAllNoticesCount(r)

\* notices created and read back by id, both controllers
NextRead ==
  \/ \E r \in ReqIds : ArriveCreateNotice(r)
  \/ \E r \in ReqIds : multerUpload(r)
  \/ \E r \in ReqIds : multerAbort(r)
  \/ \E r \in ReqIds : createNotice(r)
  \/ \E r \in ReqIds : noticeUpload(r)
  \/ \E r \in ReqIds : createNoticeSave(r)
  \/ \E r \in ReqIds : createNoticeLocal(r)
  \/ \E r \in ReqIds : createNoticeLocalSave(r)
  \/ \E r \in ReqIds : ArriveGetNoticeById(r)
  \/ \E r \in ReqIds : getNoticeById(r)

\* records created and deleted, both stores
NextDelete ==
  \/ \E r \in ReqIds : ArriveCreateNotice(r)
  \/ \E r \in ReqIds : ArriveUploadImage(r)
  \/ \E r \in ReqIds : multerUpload(r)
  \/ \E r \in ReqIds : multerAbort(r)
  \/ \E r \in ReqIds : createNotice(r)
  \/ \E r \in ReqIds : noticeUpload(r)
  \/ \E r \in ReqIds : createNoticeSave(r)
  \/ \E r \in ReqIds : createNoticeLocal(r)
  \/ \E r \in ReqIds : createNoticeLocalSave(r)
  \/ \E r \in ReqIds : uploadImageToGallery(r)
  \/ \E r \in ReqIds : galleryUpload(r)
  \/ \E r \in ReqIds : galleryCreate(r)
  \/ \E r \in ReqIds : ArriveDeleteNotice(r)
  \/ \E r \in ReqIds : deleteNotice(r)
  \/ \E r \in ReqIds : deleteNoticeLocal(r)
  \/ \E r \in ReqIds : deleteNoticeLocalFile(r)
  \/ \E r \in ReqIds : deleteNoticeRecord(r)
  \/ \E r \in ReqIds : ArriveDeleteGallery(r)
  \/ \E r \in ReqIds : deleteGalleryImage(r)
  \/ \E r \in ReqIds : deleteGalleryFile(r)
  \/ \E r \in ReqIds : deleteGalleryRecord(r)

\* notices created and updated, both controllers
NextUpdate ==
  \/ \E r \in ReqIds : ArriveCreateNotice(r)
  \/ \E r \in ReqIds : ArriveUpdateNotice(r)
  \/ \E r \in ReqIds : multerUpload(r)
  \/ \E r \in ReqIds : multerAbort(r)
  \/ \E r \in ReqIds : createNotice(r)
  \/ \E r \in ReqIds : noticeUpload(r)
  \/ \E r \in ReqIds : createNoticeSave(r)
  \/ \E r \in ReqIds : updateNotice(r)
  \/ \E r \in ReqIds : updateNoticePersist(r)
  \/ \E r \in ReqIds : createNoticeLocal(r)
  \/ \E r \in ReqIds : createNoticeLocalSave(r)
  \/ \E r \in ReqIds : updateNoticeLocal(r)
  \/ \E r \in ReqIds : updateNoticeLocalDeleteOld(r)
  \/ \E r \in ReqIds : updateNoticeLocalPersist(r)

Next == NextAdmin \/ NextAuth \/ NextNotice \/ NextGallery \/ NextList \/ NextRead

Spec == Init /\ [][Next]_vars

SpecAdmin == Init /\ [][NextAdmin]_vars
SpecAuth == InitSeeded /\ [][NextAuth]_vars
SpecCreate == InitSignedIn /\ [][NextCreate]_vars
SpecNotice == InitSignedIn /\ [][NextNotice]_vars
SpecGallery == InitSignedIn /\ [][NextGallery]_vars
SpecList == InitList /\ [][NextList]_vars
SpecRead == InitSignedIn /\ [][NextRead]_vars
SpecDelete == InitSignedIn /\ [][NextDelete]_vars
SpecUpdate == InitSignedIn /\ [][NextUpdate]_vars

\* two requests in flight at a time
RaceIds == {1, 2}

\* the Cloudinary deployment with one notice stored and the admin signed in
InitRace ==
  /\ now = 0
  /\ strategy = "remote"
  /\ admins = [a \in AdminIds |->
                 IF a = 1 THEN [SeedAdmin EXCEPT !.lastLogin = 0] ELSE Absent]
  /\ notices = [n \in NoticeIds |-> StoredNotice(n)]
  /\ gallery = [g \in GalleryIds |-> Absent]
  /\ remote = {}
  /\ disk = {}
  /\ nextNotice = MaxNotices + 1
  /\ nextGallery = 1
  /\ nextFile = 1
  /\ nextAdmin = 2
  /\ issued = {SignToken(1, 0)}
  /\ req = [r \in RaceIds |-> IdleReq]
  /\ creators = [c \in CreatorIds |-> IdleCreator]

\* updates and deletes of the stored notice, interleaved at every await
NextRace ==
  \/ \E r \in RaceIds : ArriveUpdateNotice(r)
  \/ \E r \in RaceIds : ArriveDeleteNotice(r)
  \/ \E r \in RaceIds : multerUpload(r)
  \/ \E r \in RaceIds : updateNotice(r)
  \/ \E r \in RaceIds : noticeUpload(r)
  \/ \E r \in RaceIds : updateNoticePersist(r)
  \/ \E r \in RaceIds : deleteNotice(r)
  \/ \E r \in RaceIds : deleteNoticeRecord(r)

SpecRace == InitRace /\ [][NextRace]_vars

\* the validators of utils/validators.ts applied to inputs of every shape
NextValidate ==
  \/ \E r \in ReqIds : validateSignIn(r)
  \/ \E r \in ReqIds : validateNotice(r)
  \/ \E r \in ReqIds : validateAdminRegistration(r)
  \/ \E r \in ReqIds : validateQueryParams(r)

SpecValidate == Init /\ [][NextValidate]_vars

\* ------------------------------------------------------------ properties
CreateOps == {"createNotice", "uploadImageToGallery"}
DeleteOps == {"deleteNotice", "deleteGalleryImage"}

\* the request passed the gate and the upload middleware: its controller ran
ControllerRan(q) ==
  /\ q.admin # NoAdmin
  /\ q.file = Absent \/ q.file.mimetype \in ALLOWED_FILE_TYPES
  /\ q.parts \in {Absent, OnePart}
  /\ q.op = "uploadImageToGallery" => q.file # Absent

\* none of the files the request wrote is in a backing storage
NoNewFile(q) == q.path \notin disk /\ q.tmp \notin disk /\ q.uploaded \notin remote

\* the body breaks a rule of the record it would create
InvalidCreateInput(q) ==
  IF q.op = "createNotice" THEN validateNoticeErrors(q.body) # {}
  ELSE \/ q.body.title = Absent
       \/ q.body.category \notin GALLERY_CATEGORIES
       \/ q.body.date = InvalidDate

\* C1: when a create request that carries a file has finished, its upload
\* having succeeded and the record not having been persisted, the uploaded
\* file is gone from storage again and the answer is a 500-class error
C1_NoOrphanAfterFailedCreate ==
  \A r \in ReqIds :
    LET q == req[r] IN
    (q.pc = "done" /\ q.op \in CreateOps /\ q.uploaded # NoFile /\ q.persist = "failed")
      => (q.uploaded \notin remote /\ q.status >= 500)

\* C2: a create request whose body breaks a validation rule of the record is
\* answered 400 with the rule's message, and leaves no new record and no new
\* file in any backing storage
C2_InvalidCreateRejected ==
  \A r \in ReqIds :
    LET q == req[r] IN
    (q.pc = "done" /\ q.op \in CreateOps /\ ControllerRan(q) /\ InvalidCreateInput(q))
      => (q.status = 400 /\ q.errors # {} /\ q.persist # "ok" /\ NoNewFile(q))

DisallowedFile(q) == q.file # Absent /\ q.file.mimetype \notin ALLOWED_FILE_TYPES

C3_Rejected ==
  \A r \in ReqIds :
    LET q == req[r] IN
    (q.pc = "done" /\ q.op \in CreateOps /\ q.admin # NoAdmin /\ DisallowedFile(q))
      => /\ q.status = 400 /\ q.message = "File type is not allowed"
         /\ q.persist = "none"
         /\ q.path = NoFile /\ q.tmp = NoFile /\ q.uploaded = NoFile

C3_Step ==
  \A r \in ReqIds :
    (req[r].pc = "multer" /\ req[r].op \in CreateOps /\ DisallowedFile(req'[r]))
      => /\ req'[r].pc = "done"
         /\ UNCHANGED <<notices, gallery, remote, disk>>

\* C3: a create request carrying a file whose declared MIME type is not in the
\* allow-list is answered 400 by the upload middleware, in the step that reads
\* the file: the controller never runs for it, nothing is written to the disk
\* or to the remote store and no record is created
C3_DisallowedFileRejected == [] C3_Rejected /\ [][C3_Step]_vars

C3_Witness ==
  \E r \in ReqIds :
    /\ req[r].pc = "done" /\ req[r].op \in CreateOps /\ DisallowedFile(req[r])
    /\ req[r].status = 400 /\ req[r].message = "File type is not allowed"

\* the record a delete request names
RecordOf(q) == IF q.op = "deleteNotice" THEN notices[q.id] ELSE gallery[q.id]

\* C4: when a delete request found its record and the deletion of the
\* attachment from backing storage failed (false or a throw), the record is
\* deleted all the same and the request reports success
C4_DeleteSurvivesStorageFailure ==
  \A r \in ReqIds :
    LET q == req[r] IN
    (q.pc = "done" /\ q.op \in DeleteOps /\ q.oldDeleted = "failed"
       /\ q.persist # "failed")
      => (RecordOf(q) = Absent /\ q.status = 200)

\* a request to an admin-only route is taken up in this step
Arrives(r) == Free(r) /\ req'[r] # req[r] /\ req'[r].op \in Routes

C5_Step ==
  \A r \in ReqIds :
    (/\ Arrives(r)
     /\ req'[r].token # Absent
     /\ req'[r].token.sig = "good"
     /\ admins[req'[r].token.adminId] # Absent
     /\ ~admins[req'[r].token.adminId].isActive)
      => (req'[r].pc = "done" /\ req'[r].status = 401)

\* C5: every request to an admin-only route that arrives while the admin of
\* its token has isActive = false is answered 401 by the gate, whatever the
\* gate answered to earlier requests and however valid the token still is
C5_InactiveAdminRejected == [][C5_Step]_vars

C5_Witness ==
  \E r \in ReqIds :
    LET q == req[r] IN
    /\ q.pc = "done" /\ q.op \in Routes /\ q.status = 401
    /\ q.message = "Access denied. Admin account is deactivated."
    /\ q.token \in issued /\ now < q.token.exp
    /\ admins[q.token.adminId] # Absent /\ ~admins[q.token.adminId].isActive

\* what the gate asks of a token, read against the store as it is
GateConditions(token) ==
  /\ token # Absent
  /\ token.sig = "good"
  /\ now < token.exp
  /\ admins[token.adminId] # Absent
  /\ admins[token.adminId].isActive

C6_Step ==
  \A r \in ReqIds :
    Arrives(r) =>
      IF GateConditions(req'[r].token)
        THEN /\ req'[r].pc \in {"multer", "handler"}
             /\ req'[r].admin = req'[r].token.adminId
        ELSE /\ req'[r].pc = "done" /\ req'[r].status = 401
             /\ UNCHANGED <<notices, gallery, remote, disk>>

C6_Passed ==
  \A r \in ReqIds :
    (req[r].op \in Routes /\ ~Free(r))
      => (req[r].admin # NoAdmin /\ req[r].token \in issued)

\* C6: the chain behind the gate is entered only by a request whose token is
\* there, is signed and not expired, and names an admin who exists and is
\* active when the request arrives; the gate answers every other request 401
\* itself and nothing of the stores or the file storage changes
C6_HandlerOnlyBehindGate == [] C6_Passed /\ [][C6_Step]_vars

C6_Witness ==
  \E r \in ReqIds :
    /\ req[r].op = "getProfile" /\ req[r].pc = "done" /\ req[r].status = 200
    /\ req[r].admin # NoAdmin

\* the reference of an attachment resolves to a file that is there
AttachmentResolves(a) ==
  \/ a.path # NoFile /\ a.path \in disk
  \/ a.publicId # NoFile /\ a.publicId \in remote

\* C7: when no notice request is in flight, every stored notice has no
\* attachment or an attachment whose file is in backing storage
C7_NoDanglingAttachment ==
  (\A r \in ReqIds : Free(r)) =>
    \A n \in NoticeIds :
      (notices[n] # Absent /\ notices[n].attachment # Absent)
        => AttachmentResolves(notices[n].attachment)

\* C8: when no gallery request is in flight, the image of every stored gallery
\* record is present in remote storage
C8_GalleryImageResolves ==
  (\A r \in ReqIds : Free(r)) =>
    \A g \in GalleryIds :
      gallery[g] # Absent => gallery[g].image.publicId \in remote

\* two inputs that are the same email once lowercased and trimmed
SameEmail(e, f) == e.name = f.name

\* C9: the Admin collection never holds two records with the same email, and
\* of two creations with the same (lowercased, trimmed) email that have both
\* finished, one stored its record and the other was answered 400
C9_UniqueAdminEmail ==
  /\ \A a, b \in AdminIds :
       (a # b /\ admins[a] # Absent /\ admins[b] # Absent)
         => admins[a].email # admins[b].email
  /\ (/\ creators[1].pc = "done" /\ creators[2].pc = "done"
      /\ SameEmail(creators[1].input, creators[2].input))
       => /\ \E c, d \in CreatorIds :
               /\ c # d /\ creators[c].status = 201
               /\ creators[d].status = 400
               /\ creators[d].message = "Duplicate field value"
          /\ Cardinality({a \in AdminIds : admins[a] # Absent
                            /\ admins[a].email = creators[1].doc.email}) = 1

C9_Witness ==
  /\ creators[1].pc = "done" /\ creators[2].pc = "done"
  /\ creators[1].input # creators[2].input
  /\ SameEmail(creators[1].input, creators[2].input)
  /\ creators[1].status = 400 /\ creators[2].status = 201

\* C10: no stored notice has a date later than 30 days after its last write
C10_DateWithinThirtyDays ==
  \A n \in NoticeIds :
    notices[n] # Absent => notices[n].date <= notices[n].updatedAt + MAX_FUTURE_DAYS

\* the smaller and the larger of two integers
Min(a, b) == IF a <= b THEN a ELSE b
Max(a, b) == IF a >= b THEN a ELSE b

\* the least k with k * l >= n, for l >= 1
PagesFor(n, l) == CHOOSE k \in 0..n : k * l >= n /\ (k = 0 \/ (k - 1) * l < n)

\* the request asks for page p >= 1 with limit l >= 1, both plain integers
PlainPage(q) ==
  /\ q.query.page \in {Num(p, "") : p \in 1..(MaxListed + 1)}
  /\ q.query.limit \in {Num(l, "") : l \in 1..(LIMIT_MAX + 1)}

\* C11: a list request for page p >= 1 with limit l >= 1 over N stored notices
\* is answered 200 with min(l, max(0, N - (p-1)*l)) items, totalItems N,
\* totalPages ceil(N / l), hasNextPage iff p < totalPages, hasPrevPage iff p > 1
C11_PageArithmetic ==
  \A r \in ReqIds :
    LET q == req[r]
        p == q.query.page.lead
        l == q.query.limit.lead
        N == CountDocuments
    IN (q.op = "getAllNotices" /\ q.pc = "done" /\ PlainPage(q)) =>
         /\ q.status = 200
         /\ Len(q.list.notices) = Min(l, Max(0, N - (p - 1) * l))
         /\ q.list.pagination.totalItems = N
         /\ q.list.pagination.totalPages = PagesFor(N, l)
         /\ q.list.pagination.hasNextPage = (p < PagesFor(N, l))
         /\ q.list.pagination.hasPrevPage = (p > 1)

\* page 2 with limit 2 over five notices: two items, three pages, a next and
\* a previous page
C11_Witness ==
  \E r \in ReqIds :
    /\ req[r].op = "getAllNotices" /\ req[r].pc = "done"
    /\ req[r].query = [page |-> Num(2, ""), limit |-> Num(2, "")]
    /\ CountDocuments = 5
    /\ Len(req[r].list.notices) = 2
    /\ req[r].list.pagination.totalPages = 3
    /\ req[r].list.pagination.hasNextPage /\ req[r].list.pagination.hasPrevPage

\* C12: every list query issued to the store uses a page >= 1 and a limit in
\* 1..100, whatever the request sent
C12_ListWithinSchema ==
  \A r \in ReqIds :
    (req[r].op = "getAllNotices" /\ req[r].list # Absent) =>
      /\ req[r].list.page >= 1
      /\ req[r].list.limit \in 1..LIMIT_MAX

\* the create request sent a title and a description within the length rules
ValidRoundTripInput(q) ==
  /\ q.body.title # Absent /\ q.body.description # Absent
  /\ q.body.title.len \in TITLE_MIN..TITLE_MAX
  /\ q.body.description.len \in DESCRIPTION_MIN..DESCRIPTION_MAX

\* a create answered 201 carries a generated id, and the notice stored under
\* it has the title and description sent, without surrounding blanks
C13_CreateStoresInput ==
  \A r \in ReqIds :
    LET q == req[r] IN
    (q.op = "createNotice" /\ q.pc = "done" /\ q.status = 201) =>
      /\ ValidRoundTripInput(q)
      /\ q.id \in NoticeIds /\ notices[q.id] # Absent
      /\ notices[q.id].title = [len |-> q.body.title.len, pad |-> 0]
      /\ notices[q.id].description = [len |-> q.body.description.len, pad |-> 0]

\* a get-by-id of a stored notice is answered 200 with its title and description
C13_GetReturnsStored ==
  \A r \in ReqIds :
    LET q == req[r] IN
    (q.op = "getNoticeById" /\ q.pc = "done" /\ q.id \in NoticeIds
       /\ notices[q.id] # Absent) =>
      /\ q.status = 200
      /\ q.list.title = notices[q.id].title
      /\ q.list.description = notices[q.id].description

\* with no update and no delete, a stored notice keeps its text
C13_Stable ==
  \A n \in NoticeIds :
    notices[n] # Absent =>
      /\ notices'[n] # Absent
      /\ notices'[n].title = notices[n].title
      /\ notices'[n].description = notices[n].description

C15_GetByIdStatus ==
  \A r \in ReqIds :
    LET q == req[r] IN
    (q.op = "getNoticeById" /\ q.pc = "done") =>
      /\ q.id = MalformedId => q.status = 400
      /\ (q.id # MalformedId /\ findById(q.id) = Absent) => q.status = 404

\* a notice create by an authorized admin that carries no file and whose
\* title, description and date are all within the rules of the record
ValidCreateNoFile(q) ==
  /\ q.op = "createNotice" /\ q.admin # NoAdmin /\ q.file = Absent
  /\ q.body.title # Absent /\ q.body.title.len \in TITLE_MIN..TITLE_MAX
  /\ q.body.description # Absent
  /\ q.body.description.len \in DESCRIPTION_MIN..DESCRIPTION_MAX
  /\ q.body.date = NoDate \/ q.body.date \in 0..(now + MAX_FUTURE_DAYS)

\* such a create is at the save with a document no validator and no hook
\* refuses, or it has been answered 201, or the store itself failed the write
C14_Accepted ==
  \A r \in ReqIds :
    LET q == req[r] IN
    ValidCreateNoFile(q) =>
      /\ q.pc \in {"handler", "save", "done"}
      /\ q.pc = "save" => ~NoticeSaveFails(NewNotice(q.data), TRUE)
      /\ q.pc = "done" =>
           \/ q.status = 201 /\ q.persist = "ok" /\ notices[q.id].attachment = Absent
           \/ q.status = 500 /\ q.persist = "failed"

\* the steps of such a create: backing storage never changes, and the step
\* that answers 201 adds exactly one record
C14_Step ==
  \A r \in ReqIds :
    (ValidCreateNoFile(req[r]) /\ req[r].pc \in {"handler", "save"}
       /\ req'[r] # req[r]) =>
      /\ UNCHANGED <<remote, disk, gallery>>
      /\ IF req'[r].status = 201
           THEN /\ notices[nextNotice] = Absent /\ notices'[nextNotice] # Absent
                /\ \A n \in NoticeIds \ {nextNotice} : notices'[n] = notices[n]
           ELSE UNCHANGED notices

\* C14: a create with a valid title, description and date, sent by an
\* authorized admin without a file, passes validation and every check of the
\* save; unless the store itself fails the write it is answered 201, exactly one
\* record is added, the record has no attachment, and storage is unchanged
C14_ValidCreateSucceeds == [] C14_Accepted /\ [][C14_Step]_vars

\* such a create answered 201, for a date 30 days ahead
C14_Witness ==
  \E r \in ReqIds :
    /\ ValidCreateNoFile(req[r]) /\ req[r].pc = "done" /\ req[r].status = 201
    /\ req[r].body.date = now + MAX_FUTURE_DAYS
    /\ notices[req[r].id].attachment = Absent

\* the handler of a gallery PUT or DELETE runs for an id no record has
C16_Step ==
  \A r \in ReqIds :
    (req[r].op \in {"updateGalleryImage", "deleteGalleryImage"}
       /\ req[r].pc = "handler" /\ gallery[req[r].id] = Absent
       /\ req'[r] # req[r]) =>
      /\ req'[r].pc = "done" /\ req'[r].status = 404
      /\ UNCHANGED <<gallery, remote>>

\* C16: an authorized PUT or DELETE on /api/gallery/:id whose id matches no
\* record is answered 404 and leaves the Gallery store and remote storage as
\* they were
C16_UnknownGalleryId404 == [][C16_Step]_vars

WriteOps == {"createNotice", "updateNotice", "uploadImageToGallery", "updateGalleryImage"}

\* the body of a write request, once read, breaks a rule of its record
InvalidWriteInput(q) ==
  /\ q.pc # "multer"
  /\ IF q.op \in {"createNotice", "updateNotice"}
       THEN validateNoticeErrors(q.body) # {}
     ELSE IF q.op = "uploadImageToGallery" THEN InvalidCreateInput(q)
     ELSE \/ q.body.date = InvalidDate
          \/ q.body.category # "" /\ q.body.category \notin GALLERY_CATEGORIES

\* C17: a write request that failed the gate or whose input is invalid has
\* issued no read or write of its record and no storage upload or delete
C17_RejectedAtBoundary ==
  \A r \in ReqIds :
    LET q == req[r] IN
    (q.op \in WriteOps /\ q.pc # "idle" /\ (q.admin = NoAdmin \/ InvalidWriteInput(q))) =>
      /\ q.existing = Absent /\ q.persist = "none"
      /\ q.uploaded = NoFile /\ q.oldDeleted = "none"

\* C18: the response of a successful sign-in sets the issued token as a cookie,
\* and the gate accepts that cookie while the admin exists, is active and the
\* token has not expired
C18_SignInSetsCookie ==
  \A r \in ReqIds :
    LET q == req[r] IN
    (q.op = "signIn" /\ q.pc = "done" /\ q.status = 200) =>
      /\ q.cookie \in issued
      /\ GateConditions(q.cookie) => authenticateAdmin(q.cookie).status = 0

\* the request that removes a record issued the delete of the record's file
\* first, and when that delete succeeded the file is gone too
C19_Step ==
  /\ \A n \in NoticeIds :
       (notices[n] # Absent /\ notices[n].attachment # Absent /\ notices'[n] = Absent) =>
         \E r \in ReqIds :
           /\ req[r].op = "deleteNotice" /\ req[r].id = n
           /\ req[r].oldDeleted # "none"
           /\ req[r].oldDeleted = "ok" =>
                /\ notices[n].attachment.path \notin disk'
                /\ notices[n].attachment.publicId \notin remote'
  /\ \A g \in GalleryIds :
       (gallery[g] # Absent /\ gallery'[g] = Absent) =>
         \E r \in ReqIds :
           /\ req[r].op = "deleteGalleryImage" /\ req[r].id = g
           /\ req[r].oldDeleted # "none"
           /\ req[r].oldDeleted = "ok" => gallery[g].image.publicId \notin remote'

\* C19: a delete request that removes a Notice or Gallery record with an
\* attachment has issued the delete of the backing file before; when that
\* delete succeeded, neither the record nor the file exists after the request
C19_FileDeletedBeforeRecord == [][C19_Step]_vars

\* a notice with a file on disk was deleted, the file first
C19_Witness ==
  \E r \in ReqIds :
    /\ req[r].op = "deleteNotice" /\ req[r].pc = "done" /\ req[r].status = 200
    /\ req[r].oldDeleted = "ok" /\ notices[req[r].id] = Absent

\* the file parts of the request break a limit of the upload middleware
OverLimits(q) ==
  /\ q.parts # Absent
  /\ \/ q.parts.field # "attachment"
     \/ q.parts.size > MAX_FILE_SIZE
     \/ q.parts.files > 1

\* such a request, once answered, got a 400 without its controller having
\* started, and no file of it is on the disk
C20_Rejected ==
  \A r \in ReqIds :
    LET q == req[r] IN
    (q.op \in UploadRoutes /\ OverLimits(q)) =>
      /\ q.pc \in {"abort", "done"}
      /\ q.persist = "none" /\ q.tmp = NoFile /\ q.uploaded = NoFile
      /\ q.oldDeleted = "none"
      /\ q.pc = "done" => (q.status = 400 /\ q.path \notin disk)

\* the upload middleware's steps for such a request change no record and
\* nothing in remote storage
C20_Step ==
  \A r \in ReqIds :
    (req[r].pc \in {"multer", "abort"} /\ OverLimits(req'[r])) =>
      UNCHANGED <<notices, gallery, remote>>

\* C20: a write request with a second file, a file under another field name or
\* a file larger than MAX_FILE_SIZE is answered 400 by the upload middleware;
\* its controller never runs, no record is created or changed, and no file of
\* the request is left on the disk or in remote storage
C20_OverLimitRejected == [] C20_Rejected /\ [][C20_Step]_vars

\* an oversized file sent to the disk-storage upload: written, removed, 400
C20_Witness ==
  \E r \in ReqIds :
    /\ req[r].pc = "done" /\ req[r].op \in UploadRoutes
    /\ req[r].parts # Absent /\ req[r].parts.size > MAX_FILE_SIZE
    /\ req[r].path # NoFile /\ req[r].path \notin disk
    /\ req[r].status = 400 /\ req[r].message = "File too large"

\* no step changes the stored password of an admin
C21_Step ==
  \A a \in AdminIds :
    (admins[a] # Absent /\ admins'[a] # Absent) =>
      admins'[a].password = admins[a].password

\* the seeded admin's password is the hash of the plain password, hashed once,
\* and the plain password verifies against it
C21_HashedOnce ==
  admins[1] # Absent =>
    /\ admins[1].password = Hash(Plain("Passw0rd!"))
    /\ ComparePassword(Plain("Passw0rd!"), admins[1].password)

\* C21: across sign-ins (which save the admin to set lastLogin) and
\* authenticated requests the stored password hash never changes: it is the
\* hash of the plain password, hashed once, and the password keeps verifying
C21_PasswordHashStable == [] C21_HashedOnce /\ [][C21_Step]_vars

\* the admin signed in on day 1, after the save of an earlier day or the seed
C21_Witness ==
  \E r \in ReqIds :
    /\ req[r].op = "signIn" /\ req[r].pc = "done" /\ req[r].status = 200
    /\ admins[1] # Absent /\ admins[1].lastLogin = 1
    /\ admins[1].password = Hash(Plain("Passw0rd!"))

\* C22: a notice create or update whose upload to remote storage failed is
\* answered 500, has written no record, and its temporary file is gone from the
\* uploads directory
C22_TempFileRemoved ==
  \A r \in ReqIds :
    LET q == req[r] IN
    (q.op \in {"createNotice", "updateNotice"} /\ q.pc = "done"
       /\ q.tmp # NoFile /\ q.uploaded = NoFile) =>
      /\ q.status = 500 /\ q.persist = "none"
      /\ q.tmp \notin disk

\* the record the update found has a file the controller deletes
HasOldFile(q) ==
  /\ q.existing # Absent /\ q.existing.attachment # Absent
  /\ IF strategy = "local" THEN q.existing.attachment.path # NoFile
     ELSE q.existing.attachment.publicId # NoFile

\* the update found its record and its body is valid
LookedUpAndValid(q) == q.existing # Absent /\ validateNoticeErrors(q.body) = {}

\* the steps of an update with a new file, in their order
C23_Step ==
  \A r \in ReqIds :
    LET q == req[r] IN
    (q.op = "updateNotice" /\ q.file # Absent /\ ~Free(r) /\ req'[r] # q) =>
      \* the old attachment is deleted after lookup and validation, before
      \* the upload and the write
      /\ req'[r].oldDeleted # q.oldDeleted =>
           LookedUpAndValid(q) /\ q.uploaded = NoFile /\ q.persist = "none"
      \* the controller ingests the new file after the old one is gone
      /\ req'[r].uploaded # q.uploaded =>
           /\ LookedUpAndValid(q) /\ q.persist = "none"
           /\ HasOldFile(q) => q.oldDeleted # "none"
      \* the record is written last
      /\ (q.pc = "persist" /\ req'[r].pc = "done") =>
           /\ LookedUpAndValid(q)
           /\ HasOldFile(q) => q.oldDeleted # "none"
           /\ strategy = "remote" => q.uploaded # NoFile
      /\ q.pc # "persist" => UNCHANGED notices

\* an update answered 404 or 400 has deleted no old attachment
C23_NoDeleteOnReject ==
  \A r \in ReqIds :
    (req[r].op = "updateNotice" /\ req[r].pc = "done" /\ req[r].status \in {400, 404}) =>
      req[r].oldDeleted = "none" /\ req[r].persist = "none"

Reports(q, message, broken) == (message \in q.errors) <=> broken

\* a string that is there and not empty once trimmed
HasText(s) == s # Absent /\ s.len > 0

\* the number a query-string value denotes is below k / above k; a value with
\* the tail ".5" lies one half above its leading integer
IsNumeric(v) == v # Absent /\ v # Word /\ v.tail \in {"", ".5"}
Below(v, k) == v.lead < k
Above(v, k) == v.lead > k \/ (v.lead = k /\ v.tail = ".5")

\* the rules of the email key
EmailReports(q) ==
  LET e == q.body.email IN
  /\ Reports(q, "Email is required", e = Absent)
  /\ Reports(q, "email is not allowed to be empty", e # Absent /\ e.name = "" /\ ~e.pad)
  /\ Reports(q, "Please provide a valid email address",
             e # Absent /\ (e.pad \/ e.name = "not-an-address"))

SignInReports(q) ==
  LET p == q.body.password IN
  /\ EmailReports(q)
  /\ Reports(q, "Password is required", p = Absent)
  /\ Reports(q, "password is not allowed to be empty", p # Absent /\ Len(p.text) = 0)
  /\ Reports(q, "Password must be at least 8 characters long",
             p # Absent /\ Len(p.text) \in 1..7)
  /\ Cardinality(q.errors) <= 2
  /\ q.errors = {} => q.data = q.body

NoticeReports(q) ==
  LET t == q.body.title
      d == q.body.description IN
  /\ Reports(q, "Title is required", t = Absent)
  /\ Reports(q, "is not allowed to be empty",
             (t # Absent /\ t.len = 0) \/ (d # Absent /\ d.len = 0))
  /\ Reports(q, "Title must be at least 3 characters long", HasText(t) /\ t.len < 3)
  /\ Reports(q, "Title cannot exceed 200 characters", HasText(t) /\ t.len > 200)
  /\ Reports(q, "Description is required", d = Absent)
  /\ Reports(q, "Description must be at least 10 characters long",
             HasText(d) /\ d.len < 10)
  /\ Reports(q, "Description cannot exceed 2000 characters", HasText(d) /\ d.len > 2000)
  /\ Reports(q, "Please provide a valid date", q.body.date = InvalidDate)
  /\ Cardinality(q.errors) <= 3
  /\ q.errors = {} =>
       /\ q.data.title = Str(t.len, 0) /\ q.data.description = Str(d.len, 0)
       /\ q.data.date = q.body.date

AdminRegistrationReports(q) ==
  LET n == q.body.name
      p == q.body.password
      classes == {{"a", "b", "c", "d", "o", "p", "r", "s", "w"}, {"P"}, {"0", "1"},
                  {"@", "$", "!", "%", "*", "?", "&"}}
      kinds(cs) == {c \in classes : \E i \in 1..Len(cs) : cs[i] \in c} IN
  /\ EmailReports(q)
  /\ Reports(q, "Name is required", n = Absent)
  /\ Reports(q, "is not allowed to be empty", n # Absent /\ n.len = 0)
  /\ Reports(q, "Name must be at least 2 characters long", HasText(n) /\ n.len < 2)
  /\ Reports(q, "Name cannot exceed 50 characters", HasText(n) /\ n.len > 50)
  /\ Reports(q, "Password is required", p = Absent)
  /\ Reports(q, "password is not allowed to be empty", p # Absent /\ p.chars = <<>>)
  /\ Reports(q, "Password must be at least 8 characters long",
             p # Absent /\ Len(p.chars) \in 1..7)
  /\ Reports(q, "Password must contain at least one uppercase letter, one lowercase letter, one digit, and one special character",
             p # Absent /\ p.chars # <<>>
               /\ (\/ Cardinality(kinds(p.chars)) < 4
                   \/ p.chars[1] \notin UNION classes))
  /\ Reports(q, "Role must be either admin or super_admin",
             q.body.role # Absent /\ q.body.role.role \notin {"admin", "super_admin"})
  /\ Cardinality(q.errors) <= 5
  /\ q.errors = {} =>
       /\ q.data.name = Str(n.len, 0)
       /\ q.data.email = q.body.email /\ q.data.password = p
       /\ q.data.role.role = IF q.body.role = Absent THEN "admin" ELSE q.body.role.role

QueryParamsReports(q) ==
  LET pg == q.body.page
      lm == q.body.limit
      sr == q.body.search IN
  /\ Reports(q, "Page must be a number", pg # Absent /\ ~IsNumeric(pg))
  /\ Reports(q, "Page must be an integer", IsNumeric(pg) /\ pg.tail = ".5")
  /\ Reports(q, "Page must be at least 1", IsNumeric(pg) /\ Below(pg, 1))
  /\ Reports(q, "Limit must be a number", lm # Absent /\ ~IsNumeric(lm))
  /\ Reports(q, "Limit must be an integer", IsNumeric(lm) /\ lm.tail = ".5")
  /\ Reports(q, "Limit must be at least 1", IsNumeric(lm) /\ Below(lm, 1))
  /\ Reports(q, "Limit cannot exceed 100", IsNumeric(lm) /\ Above(lm, 100))
  /\ Reports(q, "search is not allowed to be empty", sr # Absent /\ sr.len = 0)
  /\ Reports(q, "Search term cannot exceed 100 characters", HasText(sr) /\ sr.len > 100)
  /\ Cardinality(q.errors) <= 5
  /\ q.errors = {} =>
       /\ q.data.page = IF pg = Absent THEN 1 ELSE pg.lead
       /\ q.data.limit = IF lm = Absent THEN 10 ELSE lm.lead
       /\ sr # Absent => q.data.search = Str(sr.len, 0)

\* C24: a validator returns the message of every rule its input breaks and of
\* no other, whatever the number of broken rules, and for an input that breaks
\* none it returns no error and the input with strings trimmed and defaults set
C24_AllViolationsReported ==
  \A r \in ReqIds :
    LET q == req[r] IN
    q.pc = "done" =>
      /\ q.op = "validateSignIn" => SignInReports(q)
      /\ q.op = "validateNotice" => NoticeReports(q)
      /\ q.op = "validateAdminRegistration" => AdminRegistrationReports(q)
      /\ q.op = "validateQueryParams" => QueryParamsReports(q)

\* a registration input that breaks two rules of one key and rules of two
\* other keys, all reported
C24_Witness ==
  \E r \in ReqIds :
    /\ req[r].op = "validateAdminRegistration" /\ req[r].pc = "done"
    /\ req[r].body.password = [chars |-> <<"a", "b", "c">>]
    /\ req[r].body.name = Absent /\ req[r].body.email = Email("not-an-address", FALSE, FALSE)
    /\ Cardinality(req[r].errors) = 4

\* the first cause for which the gate turns a token away, none when it passes
RejectionCause(token) ==
  IF token = Absent THEN "missing"
  ELSE IF token.sig # "good" THEN "signature"
  ELSE IF now >= token.exp THEN "expired"
  ELSE IF admins[token.adminId] = Absent THEN "admin gone"
  ELSE IF ~admins[token.adminId].isActive THEN "inactive"
  ELSE "none"

\* the message the gate owes to a cause
CauseMessage(cause) ==
  CASE cause = "missing" -> "Access denied. No token provided."
    [] cause = "signature" -> "Access denied. Invalid token."
    [] cause = "expired" -> "Access denied. Token has expired."
    [] cause = "admin gone" -> "Access denied. Admin not found."
    [] cause = "inactive" -> "Access denied. Admin account is deactivated."

C25_Step ==
  \A r \in ReqIds :
    (Arrives(r) /\ RejectionCause(req'[r].token) # "none") =>
      /\ req'[r].pc = "done" /\ req'[r].status = 401
      /\ req'[r].message = CauseMessage(RejectionCause(req'[r].token))

\* C25: a request the gate turns away is answered 401 with the message of its
\* cause: no token, bad signature, expired token, admin gone, admin inactive;
\* an expired token with a good signature gets the "Token has expired" message
C25_GateReasons == [][C25_Step]_vars

\* the write of an update that carries a new file fails in this step
PersistFails(r) ==
  /\ req[r].op = "updateNotice" /\ req[r].file # Absent /\ req[r].pc = "persist"
  /\ req'[r].pc = "done" /\ req'[r].persist = "failed"

\* after the step no stored notice refers to the file the request took in
NewFileUnreferenced(q) ==
  \A n \in DOMAIN notices :
    (notices'[n] # Absent /\ notices'[n].attachment # Absent) =>
      IF strategy = "remote" THEN notices'[n].attachment.publicId # q.uploaded
      ELSE notices'[n].attachment.path # q.path

\* what holds of a failed write under both controllers
FailedWriteCommon(r) ==
  /\ req'[r].status = 500
  /\ UNCHANGED notices
  /\ HasOldFile(req[r]) => req[r].oldDeleted # "none"
  /\ NewFileUnreferenced(req[r])

C26_Step ==
  \A r \in ReqIds :
    PersistFails(r) =>
      /\ FailedWriteCommon(r)
      /\ UNCHANGED <<remote, disk>>
      /\ IF strategy = "remote" THEN req[r].uploaded \in remote'
         ELSE req[r].path \in disk'

\* C26 as stated: when the write of an update with a new file fails, nothing
\* is undone: the old attachment was deleted, the new file stays in storage
\* unreferenced, the record is unchanged, the answer is 500
C26_NoCompensation == [][C26_Step]_vars

C26_AmendedStep ==
  \A r \in ReqIds :
    PersistFails(r) =>
      /\ FailedWriteCommon(r)
      /\ UNCHANGED remote
      /\ strategy = "remote" => (UNCHANGED disk /\ req[r].uploaded \in remote')
      /\ strategy = "local" => disk' \in {disk, disk \ {req[r].path}}

\* C26 amended: when the write of an update with a new file fails, the record
\* is unchanged, the delete of the old attachment was issued and the answer is
\* 500; with remote storage the uploaded file stays, unreferenced, and nothing
\* is undone; with local storage the catch deletes the new file and only it
C26_FailedUpdateWrite == [][C26_AmendedStep]_vars

\* the write failed after an upload to remote storage: the file is still there
C26_Witness ==
  \E r \in ReqIds :
    /\ req[r].op = "updateNotice" /\ req[r].pc = "done" /\ req[r].file # Absent
    /\ req[r].persist = "failed" /\ req[r].status = 500
    /\ strategy = "remote" /\ req[r].uploaded \in remote

\* the controller of an update is at work on the request
UpdateRunning(q) ==
  q.op = "updateNotice" /\ q.pc \notin {"idle", "done", "multer", "abort"}

C27_Step ==
  \A r \in ReqIds :
    LET q == req[r] IN
    UpdateRunning(q) =>
      /\ \A n \in DOMAIN notices :
           /\ notices[n] # Absent => notices'[n] # Absent
           /\ (notices[n] # Absent /\ notices'[n] # notices[n]) =>
                /\ n = q.id
                /\ notices'[n].createdBy = notices[n].createdBy
                /\ notices'[n].createdAt = notices[n].createdAt
                /\ q.file = Absent => notices'[n].attachment = notices[n].attachment
           /\ notices[n] = Absent => notices'[n] = Absent
      /\ q.file = Absent => UNCHANGED <<remote, disk>>

\* C27: an update without a file changes nothing in storage and leaves the
\* attachment of the record as it was; an update changes only title,
\* description, date, updatedBy and updatedAt of its record, never createdBy
C27_UpdateFrame == [][C27_Step]_vars

\* an update without a file was written to a record that keeps its attachment
C27_Witness ==
  \E r \in ReqIds :
    LET q == req[r] IN
    /\ q.op = "updateNotice" /\ q.pc = "done" /\ q.status = 200
    /\ q.file = Absent /\ q.persist = "ok"
    /\ notices[q.id] # Absent /\ notices[q.id].attachment # Absent
    /\ notices[q.id].attachment.path \in disk

\* C28: whenever the updates (with a new file) and deletes racing on a notice
\* have all finished, every file in remote storage is the attachment of a
\* stored notice and every stored attachment is in remote storage
C28_RaceLeavesNoOrphan ==
  (/\ \A r \in DOMAIN req : req[r].pc = "done" /\ req[r].admin # NoAdmin
   /\ \E u, d \in DOMAIN req :
        /\ req[u].op = "updateNotice" /\ req[u].file # Absent
        /\ req[d].op = "deleteNotice" /\ req[d].id = req[u].id) =>
    /\ \A f \in remote :
         \E n \in DOMAIN notices :
           /\ notices[n] # Absent /\ notices[n].attachment # Absent
           /\ notices[n].attachment.publicId = f
    /\ \A n \in DOMAIN notices :
         (notices[n] # Absent /\ notices[n].attachment # Absent
            /\ notices[n].attachment.publicId # NoFile) =>
           notices[n].attachment.publicId \in remote

C29_Step ==
  \A r \in DOMAIN req :
    LET q == req[r] IN
    /\ (q.op \in {"updateNotice", "deleteNotice"} /\ q.pc = "handler"
          /\ notices[q.id] = Absent /\ req'[r] # q) =>
         /\ req'[r].pc = "done" /\ req'[r].status = 404
         /\ UNCHANGED <<notices, remote>>
         /\ disk' = disk \ {q.path}
    /\ (q.op = "updateNotice" /\ q.pc = "persist" /\ req'[r].pc = "done"
          /\ notices[q.id] = Absent) =>
         /\ req'[r].status # 200
         /\ UNCHANGED notices

\* C29: an update or delete whose id matches no notice is answered 404 and
\* leaves the Notice store and the file storage as they were, a file written
\* for the request being removed again; an update whose notice is gone when
\* its write is made is not answered 200
C29_UnknownNotice404 == [][C29_Step]_vars

\* the email and password are well formed: an address, at least 8 characters
WellFormedSignIn(q) ==
  /\ q.email # Absent /\ q.email.name \notin {"", "not-an-address"} /\ ~q.email.pad
  /\ q.password # Absent /\ Len(q.password.text) >= 8

\* the admins whose email is the one sent (in any letter case) and whose
\* stored hash is the hash of the password sent
MatchingAdmins(q) ==
  {a \in AdminIds :
     /\ admins[a] # Absent
     /\ admins[a].email.name = q.email.name
     /\ admins[a].password = [text |-> q.password.text, rounds |-> 1]}

C30_Step ==
  /\ \A r \in ReqIds :
       LET q == req[r] IN
       (q.op = "signIn" /\ q.pc = "handler" /\ req'[r] # q /\ WellFormedSignIn(q)) =>
         /\ UNCHANGED <<admins, issued>>
         /\ MatchingAdmins(q) = {} =>
              req'[r] = [q EXCEPT !.pc = "done", !.status = 401,
                                  !.message = "Invalid credentials"]
         /\ MatchingAdmins(q) # {} =>
              req'[r].pc = "save" /\ req'[r].admin \in MatchingAdmins(q)
  /\ issued' # issued =>
       \E r \in ReqIds :
         /\ req[r].op = "signIn" /\ req[r].pc = "save" /\ req'[r].status = 200
         /\ req[r].admin \in MatchingAdmins(req[r])
         /\ issued' = issued \cup {req[r].data}
         /\ admins'[req[r].admin].lastLogin = now
  /\ \A a \in AdminIds :
       (admins[a] # Absent /\ admins'[a] # Absent
          /\ admins'[a].lastLogin # admins[a].lastLogin) =>
         \E r \in ReqIds :
           /\ req[r].op = "signIn" /\ req[r].pc = "save" /\ req[r].admin = a
           /\ a \in MatchingAdmins(req[r])

\* C30: a well-formed sign-in for an unknown email and one for a known email
\* with a wrong password get the same answer, 401 "Invalid credentials", and
\* issue no token and change no admin; a token is issued and lastLogin set only
\* by a sign-in whose email exists and whose password matches the stored hash
C30_SignInUniform == [][C30_Step]_vars

\* a sign-in for a known email with a wrong password was turned away
C30_Witness ==
  \E r \in ReqIds :
    LET q == req[r] IN
    /\ q.op = "signIn" /\ q.pc = "done" /\ q.status = 401
    /\ q.message = "Invalid credentials"
    /\ \E a \in AdminIds :
         /\ admins[a] # Absent /\ admins[a].email.name = q.email.name
         /\ admins[a].password.text # q.password.text

====
